---- MODULE Spec2Model ----
(***************************************************************************)
(* Model of the peer-agnostic sync client of pathfinder                    *)
(* (crates/p2p/src/client/peer_agnostic.rs): the five per-artifact         *)
(* streamers (header_stream, transaction_stream, state_diff_stream,        *)
(* class_definition_stream, event_stream).  One streamer call is modelled  *)
(* per behaviour: `kind` says which one, the background task is the        *)
(* program counter `pc`, the peers and the consumer are the environment.   *)
(***************************************************************************)
EXTENDS Integers, Sequences, FiniteSets, TLC

\* ---------------------------------------------------------------- bounds
FirstBlock == 10     \* the `start` argument of the modelled call
MaxBlocks == 2       \* the range holds 1..MaxBlocks blocks
MaxCount == 2        \* an expectation's count is 0..MaxCount
MaxEvents == 4       \* an event count is 0..MaxEvents where events are studied alone
MaxRequests == 2     \* requests the task may send before the model stops
MaxResponses == 4    \* responses the task may read before the model stops
NumCallers == 2      \* tasks that call get_random_peers on the one Client
MaxCalls == 3        \* get_random_peers calls started before the model stops
Timeout == 1         \* the cache's timeout in clock ticks (60 s in the code)
MaxTime == 4         \* the clock stops here

Peers == {"p1", "p2"}
TxnHashes == {"txA", "txB"}
ONE == "0x1"                       \* ContractAddress::ONE
Addresses == {ONE, "0xA"}
None == "None"
Capacity == 1                      \* mpsc::channel(1)
ValueCounts == {0, 1, 2}           \* storage writes in one ContractDiff

VARIABLES
    kind,           \* which streamer was called: "hdr","tx","sd","cl","ev"
    range,          \* the call's arguments [start, stop, reverse]
    counts_stream,  \* the expectation stream handed to the call
    pulled,         \* how many times the task has polled it
    start, stop,    \* the task's cursor and end (header_stream swaps them on reverse)
    progress,       \* BlockProgress / *StreamProgress
    pc,             \* where the task is
    peers,          \* the rest of the peer list the for loop iterates
    peer,           \* the for loop's current peer
    acc,            \* the per-block accumulator (transactions, state_diff, ...)
    txn,            \* event_stream's current transaction hash
    pending,        \* artifacts the task is sending to the output channel
    yielded,        \* artifacts accepted by the output channel, in order
    consumed,       \* how many of them the consumer has read
    rxClosed,       \* the consumer dropped the stream handle
    sendErr,        \* a tx.send(..) returned an error (which the task discards)
    nreq,           \* requests sent so far
    lastReq,        \* the last request sent: [peer, request, ok]
    nresp,          \* responses read so far
    got,            \* items counted for the current block in this attempt
    dropped,        \* items counted on attempts that were then abandoned
    cause,          \* why the task ended (None while it runs)
    left,           \* the response on which the task last left a peer
    heard,          \* the response the task read last: [type, valid]
    srv,            \* what a cooperative peer would send next on this stream
    coop,           \* one peer served everything so far, cooperatively
    asserted,       \* a debug_assert!(is_last_block) was evaluated to false
    now,            \* Instant::now(), in ticks
    decaying,       \* Client.peers: Decaying [data, last_update, timeout]
    lock,           \* the RwLock around it: [readers, writer]
    cpc,            \* where each get_random_peers caller is
    result,         \* the Vec each caller's call returns
    seen,           \* per call: found the cache stale, queries made by then, time served
    ncalls,         \* get_random_peers calls started so far
    queries,        \* get_closest_peers calls started so far: [at, by]
    updates,        \* Decaying::update calls so far: [at, data]
    b_fn,           \* the single-block call made: "sd" or "cl"
    b_count,        \* its count argument (state_diff_length, declared_classes_count)
    b_peers,        \* the rest of the peer list its for loop iterates
    b_peer,         \* the for loop's current peer
    b_pc,           \* where the call is
    current_count,  \* the call's current_count
    b_data,         \* its state_diff or class_definitions
    b_result,       \* what the call returned
    b_nreq,         \* requests the call has sent
    b_nresp,        \* responses the call has read
    b_heard,        \* the responses read from the current peer
    b_log           \* how the earlier peers of the call ended: "failed", "ended"

vars == <<kind, range, counts_stream, pulled, start, stop, progress, pc, peers,
          peer, acc, txn, pending, yielded, consumed, rxClosed, nreq, lastReq, nresp,
          got, dropped, cause, left, heard, sendErr, srv, coop, asserted,
          now, decaying, lock, cpc, result, seen, ncalls, queries, updates,
          b_fn, b_count, b_peers, b_peer, b_pc, current_count, b_data, b_result,
          b_nreq, b_nresp, b_heard, b_log>>

\* The state of the streamer task and its channel, and the state of the peer cache.
svars == <<kind, range, counts_stream, pulled, start, stop, progress, pc, peers,
           peer, acc, txn, pending, yielded, consumed, rxClosed, nreq, lastReq, nresp,
           got, dropped, cause, left, heard, sendErr, srv, coop, asserted>>
cvars == <<now, decaying, lock, cpc, result, seen, ncalls, queries, updates>>
bvars == <<b_fn, b_count, b_peers, b_peer, b_pc, current_count, b_data, b_result,
           b_nreq, b_nresp, b_heard, b_log>>

Kinds == {"hdr", "tx", "sd", "cl", "ev"}

Min(a, b) == IF a < b THEN a ELSE b
Max(a, b) == IF a > b THEN a ELSE b

\* ------------------------------------------------------ expectation stream
\* Element i of the stream: Ok((count, commitment)) or Err.  Commitments are
\* opaque; element i carries the i-th one.
ExpOk(c, i) == [ok |-> TRUE, count |-> c, commitment |-> <<"commitment", i>>]
ExpErr == [ok |-> FALSE, count |-> 0, commitment |-> None]

\* The streams of l Ok elements with counts 0..m.
RECURSIVE OkStreamsTo(_, _)
OkStreamsTo(l, m) ==
    IF l = 0 THEN {<<>>}
    ELSE {Append(s, ExpOk(c, l)) : s \in OkStreamsTo(l - 1, m), c \in 0..m}
OkStreams(l) == OkStreamsTo(l, MaxCount)

\* Streams for a range of n blocks: n elements, or fewer and then the end of
\* the stream or an Err item.
ExpectStreamsTo(n, m) ==
    OkStreamsTo(n, m) \cup
    UNION {{s, Append(s, ExpErr)} : s \in UNION {OkStreamsTo(l, m) : l \in 0..(n - 1)}}
ExpectStreams(n) == ExpectStreamsTo(n, MaxCount)

\* counts_stream.next().await: None and Some(Err) are both "not Some(Ok(x))".
StreamNextLenient ==
    IF pulled < Len(counts_stream) /\ counts_stream[pulled + 1].ok
    THEN counts_stream[pulled + 1] ELSE ExpOk(0, pulled + 1)
StreamNext == IF pulled < Len(counts_stream) THEN counts_stream[pulled + 1] ELSE ExpErr
PulledSkip == pulled + 2
PulledNext == pulled + 1

\* ------------------------------------------------------------- progress
BlockProgressNew(count) == [count |-> count, count_backup |-> count]
StreamProgressNewStale(x) ==
    [count |-> x.count, commitment |-> ExpOk(x.count, 1).commitment,
     count_backup |-> x.count]
StreamProgressNew(x) ==
    [count |-> x.count, commitment |-> x.commitment, count_backup |-> x.count]
ProgressNew(x) ==
    IF kind \in {"tx", "sd"} THEN StreamProgressNew(x) ELSE BlockProgressNew(x.count)

rollback_noop(p) == p
rollback_over(p) == [p EXCEPT !.count = p.count_backup + 1]
rollback(p) == [p EXCEPT !.count = p.count_backup]

complete_never(p) == FALSE

\* `progress.count() == 0` in try_yield: the block is complete
complete_early(p) == p.count <= 1
complete(p) == p.count = 0

\* `*start += 1`
advance_stuck(s) == s
advance(s) == s + 1

\* ------------------------------------------------------------- requests
make_request_skip(s, e) ==
    [start |-> s + 1, direction |-> "Forward", limit |-> e - s + 1, step |-> 1]
make_request(s, e) ==
    [start |-> s, direction |-> "Forward", limit |-> e - s + 1, step |-> 1]

\* The for loop over the peer list: the next iteration, or back to the outer
\* loop (get_peers) when the list is used up.
NextPeerPc(ps) == IF ps = <<>> THEN "get_peers" ELSE "next_peer"

\* Every order of every subset of the peers (the list is shuffled).
PeerLists ==
    {<<>>} \cup {<<p>> : p \in Peers}
           \cup {pq \in Peers \X Peers : pq[1] # pq[2]}

\* ------------------------------------------------------------ responses
Fin == [type |-> "Fin"]
StreamEnd == [type |-> "End"]      \* responses.next().await returned None

TransactionsResponses ==
    {[type |-> "TransactionWithReceipt", valid |-> v] : v \in BOOLEAN} \cup {Fin}

\* BlockHeadersResponse::Header carries a signed header; `number` is the block
\* it is the header of, `valid` whether SignedBlockHeader::try_from_dto accepts it.
\* A peer answers with the header of the position asked for or with another one.
OtherBlock == FirstBlock + MaxBlocks
BlockHeadersResponses ==
    {[type |-> "Header", number |-> n, valid |-> v] :
        n \in {start, OtherBlock}, v \in BOOLEAN} \cup {Fin}

\* ------------------------------------------------- the cooperative peer
\* The count of block b as the expectation stream states it.
TrueCount(b) ==
    LET i == b - range.start + 1
    IN IF i >= 1 /\ i <= Len(counts_stream) /\ counts_stream[i].ok
       THEN counts_stream[i].count ELSE 0

FullExpectations ==
    /\ Len(counts_stream) = range.stop - range.start + 1
    /\ \A i \in 1..Len(counts_stream) : counts_stream[i].ok

RECURSIVE SrvSkip(_)
SrvSkip(b) == IF b > range.stop \/ TrueCount(b) > 0 THEN b ELSE SrvSkip(b + 1)

NoSrv == [blk |-> 0, rem |-> 0, fin |-> FALSE]
\* A cooperative peer about to serve block b: blocks without items send nothing.
SrvAt(b) == LET c == SrvSkip(b) IN [blk |-> c, rem |-> TrueCount(c), fin |-> FALSE]

\* Whether an item of weight w is what a cooperative peer sends now, and the
\* peer's position after it.
SrvItemOk(w) == ~srv.fin /\ srv.blk <= range.stop /\ w >= 1 /\ w <= srv.rem
SrvAfterItem(w) == IF w = srv.rem THEN SrvAt(srv.blk + 1) ELSE [srv EXCEPT !.rem = @ - w]
SrvFinOk == ~srv.fin /\ (IF kind = "hdr" THEN srv.rem = 0 ELSE srv.blk > range.stop)
SrvAfterFin == [srv EXCEPT !.fin = TRUE]
SrvEndOk == srv.fin

Ghost(honest, next) ==
    /\ coop' = (coop /\ honest)
    /\ srv' = IF coop /\ honest THEN next ELSE NoSrv

\* Ghost for a response of a per-block streamer: a well-formed item of weight
\* w (w = 0: not an item a cooperative peer sends), Fin, or the stream's end.
GhostResponse(response, w) ==
    IF response.type = "End" THEN Ghost(SrvEndOk, srv)
    ELSE IF response.type = "Fin" THEN Ghost(SrvFinOk, SrvAfterFin)
    ELSE Ghost(SrvItemOk(w), SrvAfterItem(w))

\* ------------------------------------------------------------ artifacts
\* Every payload a peer sends is stamped with the request it answers (`att`)
\* and the peer that request went to (`from`).
Stamp == [att |-> nreq, from |-> lastReq.peer]

\* PeerData::new(peer, ...) as it enters the output channel.  `att`, `from`
\* and `got` are bookkeeping: the request being answered when the artifact was
\* produced, its peer, and the items counted for the block on that request.
ArtifactFirstPeer(p, block, commitment, data, g) ==
    [peer |-> CHOOSE q \in Peers : TRUE, block |-> block, commitment |-> commitment,
     data |-> data, att |-> nreq, from |-> lastReq.peer, got |-> g]
Artifact(p, block, commitment, data, g) ==
    [peer |-> p, block |-> block, commitment |-> commitment, data |-> data,
     att |-> nreq, from |-> lastReq.peer, got |-> g]

EmptyAcc == <<>>

\* ------------------------------------------------------- the peer cache
Callers == 1..NumCallers
SelfId == "self"                   \* self.inner.peer_id()
NoWriter == 0

DecayingNewExpired(timeout, t) ==
    [data |-> {}, last_update |-> t - timeout - 1, timeout |-> timeout]

\* Decaying::new: empty data, stamped with the time of construction.
DecayingNew(timeout, t) == [data |-> {}, last_update |-> t, timeout |-> timeout]

DecayingGetStrict(d, t) ==
    IF t - d.last_update >= d.timeout
    THEN [some |-> FALSE, data |-> {}]
    ELSE [some |-> TRUE, data |-> d.data]

DecayingGetExpired(d, t) == [some |-> FALSE, data |-> {}]

\* Decaying::get at time t: None once more than the timeout has elapsed.
DecayingGet(d, t) ==
    IF t - d.last_update > d.timeout
    THEN [some |-> FALSE, data |-> {}]
    ELSE [some |-> TRUE, data |-> d.data]

DecayingUpdateData(d, data, t) == [d EXCEPT !.data = data]

\* Decaying::update at time t.
DecayingUpdate(d, data, t) == [d EXCEPT !.last_update = t, !.data = data]

\* What get_closest_peers may resolve to: an error, or any set of peers,
\* this node possibly among them.
ClosestPeers ==
    {[ok |-> FALSE, peers |-> {}]}
        \cup {[ok |-> TRUE, peers |-> ps] : ps \in SUBSET (Peers \cup {SelfId})}

unwrap_or_known(r) == IF r.ok THEN r.peers ELSE Peers

\* .unwrap_or_default()
unwrap_or_default(r) == IF r.ok THEN r.peers ELSE {}

\* peers.iter().copied().collect::<Vec<_>>(): the set in its iteration order,
\* which is some order.
Collected(set) ==
    {l \in [1..Cardinality(set) -> set] : \A p \in set : \E i \in 1..Cardinality(set) : l[i] = p}

\* peers.shuffle(&mut rand::thread_rng()): any permutation of the list.
shuffle(l) == Collected({l[i] : i \in 1..Len(l)})

remove_nothing(set, id) == set

\* peers.remove(self.inner.peer_id())
remove(set, id) == set \ {id}

NotSeen == [stale |-> FALSE, q0 |-> 0, at |-> 0, n |-> 0, shuffled |-> FALSE]

\* Bookkeeping of a call that obtains its result: when, after how many
\* updates, and whether the list went through peers.shuffle.
Served(c, n, sh) == seen' = [seen EXCEPT ![c].at = now, ![c].n = n, ![c].shuffled = sh]

CacheInit ==
    /\ now = 0
    /\ decaying = DecayingNew(Timeout, 0)
    /\ lock = [readers |-> {}, writer |-> NoWriter]
    /\ cpc = [c \in Callers |-> "idle"]
    /\ result = [c \in Callers |-> <<>>]
    /\ seen = [c \in Callers |-> NotSeen]
    /\ ncalls = 0
    /\ queries = <<>>
    /\ updates = <<>>

\* A task calls get_random_peers.
Call(c) ==
    /\ cpc[c] = "idle"
    /\ ncalls < MaxCalls
    /\ ncalls' = ncalls + 1
    /\ cpc' = [cpc EXCEPT ![c] = "read_wait"]
    /\ result' = [result EXCEPT ![c] = <<>>]
    /\ seen' = [seen EXCEPT ![c] = NotSeen]
    /\ UNCHANGED <<now, decaying, lock, queries, updates>>
    /\ UNCHANGED <<svars, bvars>>

\* self.peers.read().await resolves: no writer holds the lock.
ReadAcquire(c) ==
    /\ cpc[c] = "read_wait"
    /\ lock.writer = NoWriter
    /\ lock' = [lock EXCEPT !.readers = @ \cup {c}]
    /\ cpc' = [cpc EXCEPT ![c] = "read"]
    /\ UNCHANGED <<now, decaying, result, seen, ncalls, queries, updates>>
    /\ UNCHANGED <<svars, bvars>>

\* r.get(): on Some, collect, shuffle and return (the guard drops on return);
\* on None go on to the else branch, the read guard still held.
ReadGet(c) ==
    /\ cpc[c] = "read"
    /\ IF DecayingGet(decaying, now).some
       THEN /\ \E l \in Collected(DecayingGet(decaying, now).data) :
                 \E m \in shuffle(l) : result' = [result EXCEPT ![c] = m]
            /\ lock' = [lock EXCEPT !.readers = @ \ {c}]
            /\ cpc' = [cpc EXCEPT ![c] = "returned"]
            /\ Served(c, Len(updates), TRUE)
       ELSE /\ cpc' = [cpc EXCEPT ![c] = "stale"]
            /\ seen' = [seen EXCEPT ![c].stale = TRUE, ![c].q0 = Len(queries)]
            /\ UNCHANGED <<result, lock>>
    /\ UNCHANGED <<now, decaying, ncalls, queries, updates>>
    /\ UNCHANGED <<svars, bvars>>

DropReadLate(c) ==
    /\ cpc[c] = "stale"
    /\ cpc' = [cpc EXCEPT ![c] = "write_wait"]
    /\ UNCHANGED <<now, decaying, lock, result, seen, ncalls, queries, updates>>
    /\ UNCHANGED <<svars, bvars>>

\* drop(r)
DropRead(c) ==
    /\ cpc[c] = "stale"
    /\ lock' = [lock EXCEPT !.readers = @ \ {c}]
    /\ cpc' = [cpc EXCEPT ![c] = "write_wait"]
    /\ UNCHANGED <<now, decaying, result, seen, ncalls, queries, updates>>
    /\ UNCHANGED <<svars, bvars>>

\* self.peers.write().await resolves: nobody holds the lock.
WriteAcquire(c) ==
    /\ cpc[c] = "write_wait"
    /\ lock.writer = NoWriter /\ lock.readers = {}
    /\ lock' = [lock EXCEPT !.writer = c]
    /\ cpc' = [cpc EXCEPT ![c] = "recheck"]
    /\ UNCHANGED <<now, decaying, result, seen, ncalls, queries, updates>>
    /\ UNCHANGED <<svars, bvars>>

\* w.get() under the write lock: on Some return the cached peers as collected
\* (the early return leaves the function before the shuffle), on None start
\* get_closest_peers, still holding the write guard.
Recheck(c) ==
    /\ cpc[c] = "recheck"
    /\ IF DecayingGet(decaying, now).some
       THEN /\ result' \in {[result EXCEPT ![c] = l] :
                               l \in Collected(DecayingGet(decaying, now).data)}
            /\ lock' = [lock EXCEPT !.writer = NoWriter]
            /\ cpc' = [cpc EXCEPT ![c] = "returned"]
            /\ Served(c, Len(updates), FALSE)
            /\ UNCHANGED queries
       ELSE /\ cpc' = [cpc EXCEPT ![c] = "transport"]
            /\ queries' = Append(queries, [at |-> now, by |-> c])
            /\ UNCHANGED <<result, lock, seen>>
    /\ UNCHANGED <<now, decaying, ncalls, updates>>
    /\ UNCHANGED <<svars, bvars>>

\* get_closest_peers resolves; this node is taken off the set, the cache is
\* updated, the write guard dropped and the peers returned.
ClosestPeersArrive(c) ==
    /\ cpc[c] = "transport"
    /\ \E r \in ClosestPeers :
         LET fetched == remove(unwrap_or_default(r), SelfId) IN
         /\ decaying' = DecayingUpdate(decaying, fetched, now)
         /\ updates' = Append(updates, [at |-> now, data |-> fetched,
                                         raw |-> unwrap_or_default(r), ok |-> r.ok])
         /\ \E l \in Collected(fetched) :
              \E m \in shuffle(l) : result' = [result EXCEPT ![c] = m]
    /\ lock' = [lock EXCEPT !.writer = NoWriter]
    /\ cpc' = [cpc EXCEPT ![c] = "returned"]
    /\ Served(c, Len(updates) + 1, TRUE)
    /\ UNCHANGED <<now, ncalls, queries>>
    /\ UNCHANGED <<svars, bvars>>

\* The caller takes the returned Vec and may call again.
Return(c) ==
    /\ cpc[c] = "returned"
    /\ cpc' = [cpc EXCEPT ![c] = "idle"]
    /\ UNCHANGED <<now, decaying, lock, result, seen, ncalls, queries, updates>>
    /\ UNCHANGED <<svars, bvars>>

\* Time passes.
Tick ==
    /\ now < MaxTime
    /\ now' = now + 1
    /\ UNCHANGED <<decaying, lock, cpc, result, seen, ncalls, queries, updates>>
    /\ UNCHANGED <<svars, bvars>>

\* ---------------------------------------------------------------- Init
\* No single-block call is in progress.
NoResult == [tag |-> "None", peer |-> None, error |-> None, data |-> <<>>]
BlockIdle ==
    /\ b_fn = "sd"
    /\ b_count = 0
    /\ b_peers = <<>>
    /\ b_peer = None
    /\ b_pc = "idle"
    /\ current_count = 0
    /\ b_data = <<>>
    /\ b_result = NoResult
    /\ b_nreq = 0
    /\ b_nresp = 0
    /\ b_heard = <<>>
    /\ b_log = <<>>

\* What is kept of a response read: its type, and whether it parses.
NotHeard == [type |-> "None", valid |-> TRUE]
Heard(r) == [type |-> r.type, valid |-> IF "valid" \in DOMAIN r THEN r.valid ELSE TRUE]

\* The task as the call leaves it, with expected counts 0..m.
InitTask(m) ==
    /\ kind \in Kinds
    /\ \E e \in FirstBlock..(FirstBlock + MaxBlocks - 1) :
         \E rev \in (IF kind = "hdr" THEN BOOLEAN ELSE {FALSE}) :
           /\ range = [start |-> FirstBlock, stop |-> e, reverse |-> rev]
           /\ start = IF rev THEN e ELSE FirstBlock
           /\ stop = IF rev THEN FirstBlock ELSE e
           /\ counts_stream \in
                (IF kind = "hdr" THEN {<<>>} ELSE ExpectStreamsTo(e - FirstBlock + 1, m))
    /\ pulled = 0
    /\ progress = BlockProgressNew(0)
    /\ pc = IF kind = "hdr" THEN "get_peers" ELSE "init"
    /\ peers = <<>>
    /\ peer = None
    /\ acc = EmptyAcc
    /\ txn = None
    /\ pending = <<>>
    /\ yielded = <<>>
    /\ consumed = 0
    /\ rxClosed = FALSE
    /\ sendErr = FALSE
    /\ nreq = 0
    /\ lastReq = [peer |-> None, request |-> make_request(0, 0), ok |-> FALSE]
    /\ nresp = 0
    /\ got = 0
    /\ dropped = 0
    /\ cause = None
    /\ left = None
    /\ heard = NotHeard
    /\ srv = NoSrv
    /\ coop = TRUE
    /\ asserted = FALSE

Init == CacheInit /\ InitTask(MaxCount) /\ BlockIdle

\* --------------------------------------------------- the shared skeleton
\* The first pull of the expectation stream, before the outer loop.
FirstExpectation ==
    /\ pc = "init"
    /\ pulled' = PulledNext
    /\ IF StreamNext.ok
       THEN progress' = ProgressNew(StreamNext) /\ pc' = "get_peers" /\ UNCHANGED cause
       ELSE pc' = "done" /\ cause' = "expectation" /\ UNCHANGED progress
    /\ UNCHANGED <<kind, range, counts_stream, start, stop, peers, peer, acc, txn,
                   pending, yielded, consumed, rxClosed, nreq, lastReq, nresp, got, srv,
                   coop, asserted,
                   dropped, left, heard, sendErr>>
    /\ UNCHANGED <<cvars, bvars>>

\* 'outer: loop { for peer in get_peers().await { ... } }
GetPeers ==
    /\ pc = "get_peers"
    /\ \E ps \in PeerLists : peers' = ps /\ pc' = NextPeerPc(ps)
    /\ UNCHANGED <<kind, range, counts_stream, pulled, start, stop, progress, peer,
                   acc, txn, pending, yielded, consumed, rxClosed, nreq, lastReq, nresp,
                   got, srv, coop, asserted,
                   dropped, cause, left, heard, sendErr>>
    /\ UNCHANGED <<cvars, bvars>>

ChannelSendNoWait ==
    /\ pc = "send"
    /\ pending # <<>>
    /\ pending' = Tail(pending)
    /\ yielded' = IF rxClosed THEN yielded ELSE Append(yielded, Head(pending))
    /\ sendErr' = (sendErr \/ rxClosed)
    /\ UNCHANGED <<kind, range, counts_stream, pulled, start, stop, progress, pc,
                   peers, peer, acc, txn, consumed, rxClosed, nreq, lastReq, nresp, got,
                   srv, coop, asserted, dropped, cause, left, heard>>
    /\ UNCHANGED <<cvars, bvars>>

\* tx.send(..).await on the bounded channel: waits while the channel is full,
\* returns an error (which every caller discards) once the receiver is gone.
ChannelSend ==
    /\ pc = "send"
    /\ pending # <<>>
    /\ rxClosed \/ Len(yielded) - consumed < Capacity
    /\ pending' = Tail(pending)
    /\ yielded' = IF rxClosed THEN yielded ELSE Append(yielded, Head(pending))
    /\ sendErr' = (sendErr \/ rxClosed)
    /\ UNCHANGED <<kind, range, counts_stream, pulled, start, stop, progress, pc,
                   peers, peer, acc, txn, consumed, rxClosed, nreq, lastReq, nresp, got,
                   srv, coop, asserted,
                   dropped, cause, left, heard>>
    /\ UNCHANGED <<cvars, bvars>>

\* The consumer polls the ReceiverStream.
Consume ==
    /\ ~rxClosed
    /\ consumed < Len(yielded)
    /\ consumed' = consumed + 1
    /\ UNCHANGED <<kind, range, counts_stream, pulled, start, stop, progress, pc,
                   peers, peer, acc, txn, pending, yielded, rxClosed, nreq, lastReq, nresp,
                   got, srv, coop, asserted,
                   dropped, cause, left, heard, sendErr>>
    /\ UNCHANGED <<cvars, bvars>>

\* The consumer drops the ReceiverStream.
ConsumerDrop ==
    /\ ~rxClosed
    /\ rxClosed' = TRUE
    /\ UNCHANGED <<kind, range, counts_stream, pulled, start, stop, progress, pc,
                   peers, peer, acc, txn, pending, yielded, consumed, nreq, lastReq, nresp,
                   got, srv, coop, asserted,
                   dropped, cause, left, heard, sendErr>>
    /\ UNCHANGED <<cvars, bvars>>

\* The variables no response handler touches.
ResponseFrame ==
    UNCHANGED <<kind, range, counts_stream, pulled, start, stop, peers, peer,
                yielded, consumed, rxClosed, sendErr, nreq, lastReq, cvars, bvars>>

\* Bookkeeping of a response: what it was, when the task left the peer on it.
LeftOn(r) ==
    /\ left' = IF pc' \in {"next_peer", "get_peers"}
               THEN (IF r.type \in {"Fin", "End"} THEN r.type ELSE "Item")
               ELSE left
    /\ heard' = Heard(r)

\* `continue 'next_peer`: the attempt's locals are dropped.
ToNextPeer ==
    /\ pc' = NextPeerPc(peers)
    /\ acc' = EmptyAcc
    /\ got' = 0
    /\ dropped' = dropped + got
    /\ txn' = None
    /\ UNCHANGED <<progress, pending, asserted, cause>>

\* `break 'outer` (or `return`): the task ends.  `assert_ok` is the value of a
\* debug_assert! evaluated on the way: when false, a build with debug
\* assertions panics and a release build goes on to end the task.
ToTerminateRetry(assert_ok, why) ==
    /\ pc' = NextPeerPc(peers)
    /\ cause' = why
    /\ asserted' = (asserted \/ ~assert_ok)
    /\ acc' = EmptyAcc
    /\ got' = 0
    /\ txn' = None
    /\ UNCHANGED <<progress, pending, dropped>>
ToTerminate(assert_ok, why) ==
    /\ pc' \in (IF assert_ok THEN {"done"} ELSE {"done", "panic"})
    /\ cause' = why
    /\ asserted' = (asserted \/ ~assert_ok)
    /\ acc' = EmptyAcc
    /\ got' = 0
    /\ txn' = None
    /\ UNCHANGED <<progress, pending, dropped>>

\* A request goes to the head of the peer list.
RequestTo(request, ok) ==
    /\ peer' = Head(peers)
    /\ peers' = Tail(peers)
    /\ nreq' = nreq + 1
    /\ lastReq' = [peer |-> Head(peers), request |-> request, ok |-> ok]

\* The bookkeeping of a request: a cooperative run is one request, accepted.
GhostRequest(ok, first) ==
    /\ coop' = (coop /\ ok /\ nreq = 0)
    /\ srv' = IF coop /\ ok /\ nreq = 0 THEN first ELSE NoSrv

\* ---------------------------------------------------------- header_stream
dir_forward == "Forward"
dir == IF range.reverse THEN "Backward" ELSE "Forward"

done_early(direction, s, e) == IF direction = "Forward" THEN s >= e ELSE s <= e

\* fn done
done(direction, s, e) == IF direction = "Forward" THEN s > e ELSE s < e

HdrRequest ==
    [start |-> start, direction |-> dir,
     limit |-> Max(start, stop) - Min(start, stop) + 1, step |-> 1]

HdrNextPeer ==
    /\ kind = "hdr" /\ pc = "next_peer" /\ nreq < MaxRequests
    /\ \E ok \in BOOLEAN :
         /\ RequestTo(HdrRequest, ok)
         /\ GhostRequest(ok, [blk |-> start, rem |-> HdrRequest.limit, fin |-> FALSE])
         /\ cause' = IF start < 0 THEN "expect" ELSE cause
         /\ pc' = IF start < 0 THEN "panic"       \* expect("start >= 0")
                  ELSE IF ok THEN "recv" ELSE NextPeerPc(Tail(peers))
    /\ UNCHANGED <<kind, range, counts_stream, pulled, start, stop, progress, acc,
                   txn, pending, yielded, consumed, rxClosed, nresp, got, asserted,
                   dropped, left, heard, sendErr>>
    /\ UNCHANGED <<cvars, bvars>>

\* header_stream::handle_response up to its tx.send
HdrHandleResponse(signed_header, direction, s, e) ==
    IF signed_header.type = "Header" THEN
        IF signed_header.valid THEN
            IF done(direction, s, e) THEN "TerminateStream" ELSE "Send"
        ELSE IF done(direction, s, e) THEN "TerminateStream" ELSE "NextPeer"
    ELSE IF done(direction, s, e) THEN "TerminateStream" ELSE "NextPeer"

HdrGhost(r) ==
    IF r.type = "Header"
    THEN Ghost(r.valid /\ ~srv.fin /\ srv.rem > 0 /\ r.number = srv.blk,
               [srv EXCEPT !.blk = IF dir = "Forward" THEN @ + 1 ELSE @ - 1,
                           !.rem = @ - 1])
    ELSE GhostResponse(r, 0)

HdrResponse ==
    /\ kind = "hdr" /\ pc = "recv" /\ nresp < MaxResponses
    /\ \E r \in BlockHeadersResponses \cup {StreamEnd} :
         /\ nresp' = nresp + 1
         /\ HdrGhost(r)
         /\ IF r.type = "End" THEN
               IF done(dir, start, stop) THEN ToTerminate(TRUE, "end") ELSE ToNextPeer
            ELSE LET a == HdrHandleResponse(r, dir, start, stop) IN
               CASE a = "TerminateStream" ->
                      ToTerminate(TRUE, IF r.type = "Fin" THEN "fin"
                                        ELSE IF r.valid THEN "over" ELSE "parse")
                 [] a = "NextPeer" -> ToNextPeer
                 [] a = "Send" ->
                      /\ pending' = <<Artifact(peer, r.number, None, None, 0)>>
                      /\ pc' = "send"
                      /\ UNCHANGED <<progress, acc, txn, got, asserted, dropped, cause>>
         /\ LeftOn(r)
    /\ ResponseFrame

\* header_stream::handle_response after its tx.send
HdrSent ==
    /\ kind = "hdr" /\ pc = "send" /\ pending = <<>>
    /\ start' = IF dir = "Forward" THEN start + 1 ELSE start - 1
    /\ pc' = "recv"
    /\ UNCHANGED <<kind, range, counts_stream, pulled, stop, progress, peers, peer,
                   acc, txn, pending, yielded, consumed, rxClosed, nreq, lastReq, nresp,
                   got, srv, coop, asserted,
                   dropped, cause, left, heard, sendErr>>
    /\ UNCHANGED <<cvars, bvars>>

\* ----------------------------------------------------- transaction_stream
FinMissingNever(p, s, e) == FALSE

\* After the response loop ("Fin missing"): the last block was complete, so
\* the task ends instead of turning to the next peer.
FinMissingBreak(p, s, e) == p.count = 0 /\ s = e

into_idx_one_based(len) == len + 1

\* into_idx: usize to TransactionIndex
into_idx(len) == len

\* handle_response: the action, the progress it leaves, the parsed pair and
\* the value of debug_assert!(is_last_block) where it is evaluated.
TxHandleResponse(response, p, txn_idx, is_last_block) ==
    IF response.type = "TransactionWithReceipt" THEN
        IF ~response.valid
        THEN [action |-> "NextPeer", progress |-> p, txn |-> None, assert_ok |-> TRUE]
        ELSE IF p.count >= 1
        THEN [action |-> "TryYield", progress |-> [p EXCEPT !.count = @ - 1],
              txn |-> [att |-> Stamp.att, from |-> Stamp.from, idx |-> txn_idx], assert_ok |-> TRUE]
        ELSE [action |-> "TerminateStream", progress |-> p, txn |-> None,
              assert_ok |-> is_last_block]
    ELSE IF p.count > 0
        THEN [action |-> "NextPeer", progress |-> p, txn |-> None, assert_ok |-> TRUE]
    ELSE IF is_last_block
        THEN [action |-> "TerminateStream", progress |-> p, txn |-> None,
              assert_ok |-> TRUE]
    ELSE [action |-> "NextPeer", progress |-> p, txn |-> None, assert_ok |-> TRUE]

TxNextPeer ==
    /\ kind = "tx" /\ pc = "next_peer" /\ nreq < MaxRequests
    /\ \E ok \in BOOLEAN :
         /\ RequestTo(make_request(start, stop), ok)
         /\ GhostRequest(ok, SrvAt(start))
         /\ IF ok
            THEN /\ acc' = <<>>
                 /\ progress' = rollback(progress)
                 /\ got' = 0
                 /\ pc' = "recv"
            ELSE /\ pc' = NextPeerPc(Tail(peers))
                 /\ UNCHANGED <<acc, progress, got>>
    /\ UNCHANGED <<kind, range, counts_stream, pulled, start, stop, txn, pending,
                   yielded, consumed, rxClosed, nresp, asserted,
                   dropped, cause, left, heard, sendErr>>
    /\ UNCHANGED <<cvars, bvars>>

\* try_yield's artifact
TxArtifact(p, prog, transactions, block, g) ==
    Artifact(p, block, prog.commitment, transactions, g)

TxResponse ==
    /\ kind = "tx" /\ pc = "recv" /\ nresp < MaxResponses
    /\ \E r \in TransactionsResponses \cup {StreamEnd} :
         /\ nresp' = nresp + 1
         /\ GhostResponse(r, IF r.type = "TransactionWithReceipt" /\ r.valid THEN 1 ELSE 0)
         /\ IF r.type = "End" THEN
               IF FinMissingBreak(progress, start, stop)
               THEN ToTerminate(TRUE, "end") ELSE ToNextPeer
            ELSE LET a == TxHandleResponse(r, progress, into_idx(Len(acc)), start = stop) IN
               CASE a.action = "NextPeer" -> ToNextPeer
                 [] a.action = "TerminateStream" ->
                      ToTerminate(a.assert_ok, IF r.type = "Fin" THEN "fin" ELSE "over")
                 [] a.action = "TryYield" ->
                      /\ progress' = a.progress
                      /\ got' = got + 1
                      /\ IF complete(a.progress)
                         THEN /\ pending' = <<TxArtifact(peer, a.progress,
                                                Append(acc, a.txn), start, got + 1)>>
                              /\ acc' = <<>>
                              /\ pc' = "send"
                         ELSE /\ acc' = Append(acc, a.txn)
                              /\ pc' = "recv"
                              /\ UNCHANGED pending
                      /\ UNCHANGED <<txn, asserted, dropped, cause>>
         /\ LeftOn(r)
    /\ ResponseFrame

\* try_yield after its tx.send
TxSent ==
    /\ kind = "tx" /\ pc = "send" /\ pending = <<>>
    /\ IF start < stop
       THEN /\ start' = advance(start)
            /\ pulled' = PulledNext
            /\ IF StreamNext.ok
               THEN /\ progress' = ProgressNew(StreamNext) /\ got' = 0 /\ pc' = "recv"
                    /\ UNCHANGED cause
               ELSE pc' = "done" /\ cause' = "expectation" /\ UNCHANGED <<progress, got>>
       ELSE pc' = "recv" /\ UNCHANGED <<start, pulled, progress, got, cause>>
    /\ UNCHANGED <<kind, range, counts_stream, stop, peers, peer, acc, txn, pending,
                   yielded, consumed, rxClosed, nreq, lastReq, nresp, srv, coop, asserted,
                   dropped, left, heard, sendErr>>
    /\ UNCHANGED <<cvars, bvars>>

\* ------------------------------------------------------ state_diff_stream
\* StateDiffsResponse.  A ContractDiff carries `values` storage writes (to the
\* keys 1..values) and optionally a nonce and a class hash; every payload is
\* stamped with the request it arrived on.
StateDiffsResponses ==
    {[type |-> "ContractDiff", address |-> a, nonce |-> n, class_hash |-> c,
      values |-> v] :
        a \in Addresses \ {ONE}, n \in BOOLEAN, c \in BOOLEAN, v \in ValueCounts}
    \cup {[type |-> "ContractDiff", address |-> ONE, nonce |-> x, class_hash |-> x,
           values |-> v] : x \in BOOLEAN, v \in ValueCounts}
    \cup {[type |-> "DeclaredClass", compiled |-> c] : c \in BOOLEAN}
    \cup {Fin}

\* StateUpdateData::default() and ContractUpdate::default()
StateUpdateDataDefault ==
    [contract_updates |-> <<>>, system_contract_updates |-> <<>>,
     declared_cairo_classes |-> {}, declared_sierra_classes |-> <<>>]
\* An Option is <<>> (None) or <<x>> (Some(x)).
ContractUpdateDefault == [storage |-> <<>>, nonce |-> <<>>, class |-> <<>>]
SystemContractUpdateDefault == [storage |-> <<>>]

\* map.entry(k).or_default() and map.insert(k, v)
OrDefault(map, k, d) == IF k \in DOMAIN map THEN map[k] ELSE d
Insert(map, k, v) == [x \in (DOMAIN map) \cup {k} |-> IF x = k THEN v ELSE map[x]]

InsertValuesNone(storage, n, tag) == storage

\* values.into_iter().for_each(|{key, value}| storage.insert(key, value))
InsertValues(storage, n, tag) ==
    [x \in (DOMAIN storage) \cup (1..n) |-> IF x \in 1..n THEN tag ELSE storage[x]]

SdResult(action, state_diff, p, assert_ok) ==
    [action |-> action, state_diff |-> state_diff, progress |-> p,
     assert_ok |-> assert_ok]

\* the nonce and class_hash arms of a ContractDiff for an ordinary contract
SdContractDiffRest(response, state_diff, update, address, p, is_last_block, tag) ==
    LET overNonce == response.nonce /\ p.count < 1
        p1 == IF response.nonce /\ ~overNonce THEN [p EXCEPT !.count = @ - 1] ELSE p
        u1 == IF response.nonce THEN [update EXCEPT !.nonce = <<tag>>] ELSE update
        overClass == response.class_hash /\ p1.count < 1
        p2 == IF response.class_hash /\ ~overClass THEN [p1 EXCEPT !.count = @ - 1] ELSE p1
        u2 == IF response.class_hash
              THEN [u1 EXCEPT !.class = <<[update |-> "Deploy", hash |-> tag]>>] ELSE u1
    IN IF overNonce \/ overClass
       THEN SdResult("TerminateStream", state_diff, p, is_last_block)
       ELSE SdResult("TryYield",
                     [state_diff EXCEPT !.contract_updates = Insert(@, address, u2)],
                     p2, TRUE)

SdHandleResponse(response, state_diff, p, is_last_block) ==
    LET tag == Stamp IN
    IF response.type = "ContractDiff" THEN
        IF p.count < response.values
        THEN SdResult("TerminateStream", state_diff, p, is_last_block)
        ELSE LET p0 == [p EXCEPT !.count = @ - response.values]
                 address == response.address
             IN IF address = ONE
                THEN LET u == OrDefault(state_diff.system_contract_updates, address,
                                        SystemContractUpdateDefault)
                         u1 == [u EXCEPT !.storage = InsertValues(@, response.values, tag)]
                     IN SdResult("TryYield",
                                 [state_diff EXCEPT !.system_contract_updates =
                                                        Insert(@, address, u1)],
                                 p0, TRUE)
                ELSE LET u == OrDefault(state_diff.contract_updates, address,
                                        ContractUpdateDefault)
                         u1 == [u EXCEPT !.storage = InsertValues(@, response.values, tag)]
                     IN SdContractDiffRest(response, state_diff, u1, address, p0,
                                           is_last_block, tag)
    ELSE IF response.type = "DeclaredClass" THEN
        LET sd1 == IF response.compiled
                   THEN [state_diff EXCEPT !.declared_sierra_classes =
                                               Insert(@, <<"class", tag>>, <<"casm", tag>>)]
                   ELSE [state_diff EXCEPT !.declared_cairo_classes =
                                               @ \cup {<<"class", tag>>}]
        IN IF p.count >= 1
           THEN SdResult("TryYield", sd1, [p EXCEPT !.count = @ - 1], TRUE)
           ELSE SdResult("TerminateStream", sd1, p, is_last_block)
    ELSE IF p.count > 0 THEN SdResult("NextPeer", state_diff, p, TRUE)
    ELSE IF is_last_block THEN SdResult("TerminateStream", state_diff, p, TRUE)
    ELSE SdResult("TryYield", state_diff, p, TRUE)

\* The weight of an item as a cooperative peer and the verifier count it; a
\* cooperative peer sends the system contract storage writes only.
SdWeight(r) ==
    IF r.type = "ContractDiff"
    THEN IF r.address = ONE /\ (r.nonce \/ r.class_hash) THEN 0
         ELSE r.values + (IF r.nonce THEN 1 ELSE 0) + (IF r.class_hash THEN 1 ELSE 0)
    ELSE IF r.type = "DeclaredClass" THEN 1 ELSE 0

SdNextPeer ==
    /\ kind = "sd" /\ pc = "next_peer" /\ nreq < MaxRequests
    /\ \E ok \in BOOLEAN :
         /\ RequestTo(make_request(start, stop), ok)
         /\ GhostRequest(ok, SrvAt(start))
         /\ IF ok
            THEN /\ progress' = rollback(progress)
                 /\ acc' = StateUpdateDataDefault
                 /\ got' = 0
                 /\ pc' = "recv"
            ELSE /\ pc' = NextPeerPc(Tail(peers))
                 /\ UNCHANGED <<acc, progress, got>>
    /\ UNCHANGED <<kind, range, counts_stream, pulled, start, stop, txn, pending,
                   yielded, consumed, rxClosed, nresp, asserted,
                   dropped, cause, left, heard, sendErr>>
    /\ UNCHANGED <<cvars, bvars>>

\* try_yield's artifact
SdArtifact(p, prog, state_diff, block, g) ==
    Artifact(p, block, prog.commitment, state_diff, g)

SdResponse ==
    /\ kind = "sd" /\ pc = "recv" /\ nresp < MaxResponses
    /\ \E r \in StateDiffsResponses \cup {StreamEnd} :
         /\ nresp' = nresp + 1
         /\ GhostResponse(r, SdWeight(r))
         /\ IF r.type = "End" THEN
               IF FinMissingBreak(progress, start, stop)
               THEN ToTerminate(TRUE, "end") ELSE ToNextPeer
            ELSE LET a == SdHandleResponse(r, acc, progress, start = stop)
                     g == got + (progress.count - a.progress.count)
                 IN
               CASE a.action = "NextPeer" -> ToNextPeer
                 [] a.action = "TerminateStream" ->
                      ToTerminate(a.assert_ok, IF r.type = "Fin" THEN "fin" ELSE "over")
                 [] a.action = "TryYield" ->
                      /\ progress' = a.progress
                      /\ got' = g
                      /\ IF complete(a.progress)
                         THEN /\ pending' = <<SdArtifact(peer, a.progress,
                                                a.state_diff, start, g)>>
                              /\ acc' = StateUpdateDataDefault
                              /\ pc' = "send"
                         ELSE /\ acc' = a.state_diff
                              /\ pc' = "recv"
                              /\ UNCHANGED pending
                      /\ UNCHANGED <<txn, asserted, dropped, cause>>
         /\ LeftOn(r)
    /\ ResponseFrame

\* try_yield after its tx.send
SdSent ==
    /\ kind = "sd" /\ pc = "send" /\ pending = <<>>
    /\ IF start < stop
       THEN /\ start' = advance(start)
            /\ pulled' = PulledNext
            /\ IF StreamNext.ok
               THEN /\ progress' = ProgressNew(StreamNext) /\ got' = 0 /\ pc' = "recv"
                    /\ UNCHANGED cause
               ELSE pc' = "done" /\ cause' = "expectation" /\ UNCHANGED <<progress, got>>
       ELSE pc' = "recv" /\ UNCHANGED <<start, pulled, progress, got, cause>>
    /\ UNCHANGED <<kind, range, counts_stream, stop, peers, peer, acc, txn, pending,
                   yielded, consumed, rxClosed, nreq, lastReq, nresp, srv, coop, asserted,
                   dropped, left, heard, sendErr>>
    /\ UNCHANGED <<cvars, bvars>>

\* ------------------------------------------------ class_definition_stream
ClassesResponses ==
    {[type |-> "Class", variant |-> c, valid |-> v] :
        c \in {"Cairo0", "Cairo1"}, v \in BOOLEAN} \cup {Fin}

\* handle_response: None when the caller should move to the next peer
ClHandleResponse(response, block_number) ==
    IF response.type = "Class" /\ response.valid
    THEN [some |-> TRUE,
          definition |-> [variant |-> IF response.variant = "Cairo0"
                                      THEN "Cairo" ELSE "Sierra",
                          block_number |-> block_number, att |-> Stamp.att,
                          from |-> Stamp.from, idx |-> got]]
    ELSE [some |-> FALSE]

\* yield_block's sends: one artifact per class definition
ClArtifacts(p, class_definitions, g) ==
    [i \in 1..Len(class_definitions) |->
        Artifact(p, class_definitions[i].block_number, None, class_definitions[i], g)]

ClNextPeer ==
    /\ kind = "cl" /\ pc = "next_peer" /\ nreq < MaxRequests
    /\ \E ok \in BOOLEAN :
         /\ RequestTo(make_request(start, stop), ok)
         /\ GhostRequest(ok, SrvAt(start))
         /\ IF ok
            THEN /\ progress' = rollback(progress)
                 /\ acc' = <<>>
                 /\ got' = 0
                 \* while start <= stop { while progress.get() > 0 { .. } yield_block }
                 /\ pc' = IF rollback(progress).count > 0 THEN "recv" ELSE "send"
            ELSE /\ pc' = NextPeerPc(Tail(peers))
                 /\ UNCHANGED <<acc, progress, got>>
    /\ UNCHANGED <<kind, range, counts_stream, pulled, start, stop, txn, pending,
                   yielded, consumed, rxClosed, nresp, asserted,
                   dropped, cause, left, heard, sendErr>>
    /\ UNCHANGED <<cvars, bvars>>

ClResponse ==
    /\ kind = "cl" /\ pc = "recv" /\ nresp < MaxResponses
    /\ \E r \in ClassesResponses \cup {StreamEnd} :
         /\ nresp' = nresp + 1
         /\ GhostResponse(r, IF r.type = "Class" /\ r.valid THEN 1 ELSE 0)
         /\ IF r.type = "End" THEN ToNextPeer
            ELSE LET x == ClHandleResponse(r, start) IN
               IF ~x.some THEN ToNextPeer
               ELSE /\ progress' = [progress EXCEPT !.count = @ - 1]
                    /\ got' = got + 1
                    /\ IF progress.count - 1 > 0
                       THEN /\ acc' = Append(acc, x.definition)
                            /\ pc' = "recv"
                            /\ UNCHANGED pending
                       ELSE /\ pending' = ClArtifacts(peer, Append(acc, x.definition), got + 1)
                            /\ acc' = <<>>
                            /\ pc' = "send"
                    /\ UNCHANGED <<txn, asserted, dropped, cause>>
         /\ LeftOn(r)
    /\ ResponseFrame

\* yield_block after its sends, and the loops around it up to the next await
ClYielded ==
    /\ kind = "cl" /\ pc = "send" /\ pending = <<>>
    /\ IF start = stop
       THEN pc' = "done" /\ cause' = "complete" /\ UNCHANGED <<start, pulled, progress, got>>
       ELSE /\ start' = advance(start)
            /\ pulled' = PulledNext
            /\ IF StreamNext.ok
               THEN /\ progress' = ProgressNew(StreamNext)
                    /\ got' = 0
                    /\ pc' = IF StreamNext.count > 0 THEN "recv" ELSE "send"
                    /\ UNCHANGED cause
               ELSE pc' = "done" /\ cause' = "expectation" /\ UNCHANGED <<progress, got>>
    /\ UNCHANGED <<kind, range, counts_stream, stop, peers, peer, acc, txn, pending,
                   yielded, consumed, rxClosed, nreq, lastReq, nresp, srv, coop, asserted,
                   dropped, left, heard, sendErr>>
    /\ UNCHANGED <<cvars, bvars>>

\* ------------------------------------------------------------ event_stream
EventsResponses ==
    {[type |-> "Event", transaction_hash |-> h, valid |-> v] :
        h \in TxnHashes, v \in BOOLEAN} \cup {Fin}

same_txn_never(current_txn, txn_hash) == FALSE

\* Some(x) if *x == txn_hash
same_txn(current_txn, txn_hash) == current_txn = txn_hash

\* handle_response: whether to move to the next peer, the current transaction
\* and the groups it leaves, and whether expect("not empty") panicked.  An
\* event keeps, as bookkeeping, the transaction hash it arrived with.
EvHandleResponse(response, current_txn, events) ==
    IF response.type = "Event" THEN
        IF ~response.valid
        THEN [next_peer |-> TRUE, txn |-> current_txn, events |-> events, panic |-> FALSE]
        ELSE LET event == [att |-> Stamp.att, from |-> Stamp.from, idx |-> got,
                           tx |-> response.transaction_hash] IN
             IF same_txn(current_txn, response.transaction_hash)
             THEN IF events = <<>>
                  THEN [next_peer |-> FALSE, txn |-> current_txn, events |-> events,
                        panic |-> TRUE]
                  ELSE [next_peer |-> FALSE, txn |-> current_txn,
                        events |-> [events EXCEPT ![Len(events)][2] = Append(@, event)],
                        panic |-> FALSE]
             ELSE [next_peer |-> FALSE, txn |-> response.transaction_hash,
                   events |-> Append(events, <<response.transaction_hash, <<event>>>>),
                   panic |-> FALSE]
    ELSE [next_peer |-> TRUE, txn |-> current_txn, events |-> events, panic |-> FALSE]

\* yield_block's send
EvArtifact(p, events, block, g) == Artifact(p, block, None, events, g)

EvNextPeer ==
    /\ kind = "ev" /\ pc = "next_peer" /\ nreq < MaxRequests
    /\ \E ok \in BOOLEAN :
         /\ RequestTo(make_request(start, stop), ok)
         /\ GhostRequest(ok, SrvAt(start))
         /\ IF ok
            THEN /\ txn' = None
                 /\ progress' = rollback(progress)
                 /\ acc' = <<>>
                 /\ got' = 0
                 /\ IF rollback(progress).count > 0
                    THEN pc' = "recv" /\ UNCHANGED pending
                    ELSE pc' = "send" /\ pending' = <<[EvArtifact(Head(peers), <<>>, start, 0)
                                                   EXCEPT !.att = nreq + 1,
                                                          !.from = Head(peers)]>>
            ELSE /\ pc' = NextPeerPc(Tail(peers))
                 /\ UNCHANGED <<acc, progress, got, txn, pending>>
    /\ UNCHANGED <<kind, range, counts_stream, pulled, start, stop,
                   yielded, consumed, rxClosed, nresp, asserted,
                   dropped, cause, left, heard, sendErr>>
    /\ UNCHANGED <<cvars, bvars>>

\* The weight of an item for a cooperative peer: the first event it sends for
\* a block belongs to another transaction than the last event it sent.
EvWeight(r) ==
    IF r.type = "Event" /\ r.valid /\ ~(acc = <<>> /\ txn = r.transaction_hash)
    THEN 1 ELSE 0

EvResponse ==
    /\ kind = "ev" /\ pc = "recv" /\ nresp < MaxResponses
    /\ \E r \in EventsResponses \cup {StreamEnd} :
         /\ nresp' = nresp + 1
         /\ GhostResponse(r, EvWeight(r))
         /\ IF r.type = "End" THEN ToNextPeer
            ELSE LET a == EvHandleResponse(r, txn, acc) IN
               IF a.panic
               THEN /\ pc' = "panic"
                    /\ cause' = "expect"
                    /\ UNCHANGED <<progress, acc, txn, pending, got, asserted, dropped>>
               ELSE IF a.next_peer THEN ToNextPeer
               ELSE /\ progress' = [progress EXCEPT !.count = @ - 1]
                    /\ got' = got + 1
                    /\ txn' = a.txn
                    /\ IF progress.count - 1 > 0
                       THEN /\ acc' = a.events
                            /\ pc' = "recv"
                            /\ UNCHANGED pending
                       ELSE /\ pending' = <<EvArtifact(peer, a.events, start, got + 1)>>
                            /\ acc' = <<>>
                            /\ pc' = "send"
                    /\ UNCHANGED <<asserted, dropped, cause>>
         /\ LeftOn(r)
    /\ ResponseFrame

\* yield_block after its send, and the loops around it up to the next await
EvYielded ==
    /\ kind = "ev" /\ pc = "send" /\ pending = <<>>
    /\ IF start = stop
       THEN /\ pc' = "done" /\ cause' = "complete"
            /\ UNCHANGED <<start, pulled, progress, got, pending>>
       ELSE /\ start' = advance(start)
            /\ pulled' = PulledNext
            /\ IF StreamNext.ok
               THEN /\ progress' = ProgressNew(StreamNext)
                    /\ got' = 0
                    /\ UNCHANGED cause
                    /\ IF StreamNext.count > 0
                       THEN pc' = "recv" /\ UNCHANGED pending
                       ELSE /\ pc' = "send"
                            /\ pending' = <<EvArtifact(peer, <<>>, advance(start), 0)>>
               ELSE /\ pc' = "done" /\ cause' = "expectation"
                    /\ UNCHANGED <<progress, got, pending>>
    /\ UNCHANGED <<kind, range, counts_stream, stop, peers, peer, acc, txn,
                   yielded, consumed, rxClosed, nreq, lastReq, nresp, srv, coop, asserted,
                   dropped, left, heard, sendErr>>
    /\ UNCHANGED <<cvars, bvars>>

\* ------------------------------------------------ the single-block calls
\* u64::checked_sub
saturating_sub(a, b) == [some |-> TRUE, x |-> IF a >= b THEN a - b ELSE 0]
checked_sub(a, b) == IF a >= b THEN [some |-> TRUE, x |-> a - b] ELSE [some |-> FALSE, x |-> 0]

OkSome(p, data) == [tag |-> "OkSome", peer |-> p, error |-> None, data |-> data]
OkNone == [tag |-> "OkNone", peer |-> None, error |-> None, data |-> <<>>]
Err(error, p) == [tag |-> "Err", peer |-> p, error |-> error, data |-> <<>>]

\* What the body of a response loop does with one response: go on with a new
\* count and accumulator, or return.
Continue(cc, data) == [ret |-> FALSE, current_count |-> cc, data |-> data, result |-> NoResult]
ReturnOfNothing(res) == [ret |-> TRUE, current_count |-> 0, data |-> <<>>, result |-> OkNone]
ReturnOf(res) == [ret |-> TRUE, current_count |-> 0, data |-> <<>>, result |-> res]

\* Every payload is stamped with the request it answers and its peer.
BStamp == [att |-> b_nreq, from |-> b_peer]

\* state_diff_for_block: the match on one response
SdForBlockResponse(resp, cc, state_diff, p) ==
    LET tag == BStamp
        bad == ReturnOf(Err("IncorrectStateDiffCount", p))
    IN
    IF resp.type = "ContractDiff" THEN
        LET c0 == checked_sub(cc, resp.values) IN
        IF ~c0.some THEN bad
        ELSE IF resp.address = ONE THEN
            LET u == OrDefault(state_diff.system_contract_updates, resp.address,
                               SystemContractUpdateDefault)
                u1 == [u EXCEPT !.storage = InsertValues(@, resp.values, tag)]
            IN Continue(c0.x, [state_diff EXCEPT !.system_contract_updates =
                                                     Insert(@, resp.address, u1)])
        ELSE
            LET u == OrDefault(state_diff.contract_updates, resp.address,
                               ContractUpdateDefault)
                u1 == [u EXCEPT !.storage = InsertValues(@, resp.values, tag)]
                c1 == IF resp.nonce THEN checked_sub(c0.x, 1) ELSE c0
                u2 == IF resp.nonce THEN [u1 EXCEPT !.nonce = <<tag>>] ELSE u1
                c2 == IF resp.class_hash /\ c1.some THEN checked_sub(c1.x, 1) ELSE c1
                u3 == IF resp.class_hash
                      THEN [u2 EXCEPT !.class = <<[update |-> "Deploy", hash |-> tag]>>]
                      ELSE u2
            IN IF ~c1.some \/ ~c2.some THEN bad
               ELSE Continue(c2.x, [state_diff EXCEPT !.contract_updates =
                                                         Insert(@, resp.address, u3)])
    ELSE IF resp.type = "DeclaredClass" THEN
        LET c0 == checked_sub(cc, 1) IN
        IF ~c0.some THEN bad
        ELSE Continue(c0.x,
                      IF resp.compiled
                      THEN [state_diff EXCEPT !.declared_sierra_classes =
                                                  Insert(@, <<"class", tag>>, <<"casm", tag>>)]
                      ELSE [state_diff EXCEPT !.declared_cairo_classes =
                                                  @ \cup {<<"class", tag>>}])
    ELSE IF cc # 0 THEN bad
    ELSE ReturnOf(OkSome(p, state_diff))

\* class_definitions_for_block: the match on one response that is not Fin,
\* and the checked_sub after it
ClForBlockResponse(resp, cc, class_definitions, block, p) ==
    IF ~resp.valid
    THEN ReturnOf(Err(IF resp.variant = "Cairo0" THEN "CairoDefinitionError"
                                                 ELSE "SierraDefinitionError", p))
    ELSE LET definition == [variant |-> IF resp.variant = "Cairo0" THEN "Cairo" ELSE "Sierra",
                            block_number |-> block,
                            att |-> BStamp.att, from |-> BStamp.from]
             c0 == checked_sub(cc, 1)
         IN IF c0.some
            THEN Continue(c0.x, Append(class_definitions, definition))
            ELSE ReturnOf(Err("IncorrectClassDefinitionCount", p))

ClForBlockAfterLoopLenient(cc, class_definitions, p) == OkSome(p, class_definitions)

\* class_definitions_for_block: after the while loop (Fin, or the stream ended)
ClForBlockAfterLoop(cc, class_definitions, p) ==
    IF cc # 0 THEN Err("IncorrectClassDefinitionCount", p)
    ELSE OkSome(p, class_definitions)

\* let peers = self.get_random_peers().await
BGetPeers ==
    /\ b_pc = "get_peers"
    /\ b_peers' \in PeerLists
    /\ b_pc' = "for"
    /\ UNCHANGED <<b_fn, b_count, b_peer, current_count, b_data, b_result, b_nreq,
                   b_nresp, b_heard, b_log>>
    /\ UNCHANGED <<svars, cvars>>

\* for peer in peers { send_*_sync_request(peer, request).await ... }: the
\* list is used up and Ok(None) returned, or the next peer is asked.
BNextPeer ==
    /\ b_pc = "for"
    /\ IF b_peers = <<>>
       THEN /\ b_result' = OkNone
            /\ b_pc' = "returned"
            /\ UNCHANGED <<b_peers, b_peer, current_count, b_data, b_nreq, b_heard, b_log>>
       ELSE /\ b_peer' = Head(b_peers)
            /\ b_peers' = Tail(b_peers)
            /\ b_nreq' = b_nreq + 1
            /\ b_heard' = <<>>
            /\ \E ok \in BOOLEAN :
                 IF ok
                 THEN /\ current_count' = b_count
                      /\ b_data' = IF b_fn = "sd" THEN StateUpdateDataDefault ELSE <<>>
                      /\ b_pc' = "recv"
                      /\ UNCHANGED b_log
                 ELSE /\ b_log' = Append(b_log, "failed")
                      /\ UNCHANGED <<current_count, b_data, b_pc>>
            /\ UNCHANGED b_result
    /\ UNCHANGED <<b_fn, b_count, b_nresp>>
    /\ UNCHANGED <<svars, cvars>>

\* The outcome a of one pass through the response loop.
BApply(a) ==
    IF a.ret
    THEN /\ b_result' = a.result
         /\ b_pc' = "returned"
         /\ UNCHANGED <<current_count, b_data>>
    ELSE /\ current_count' = a.current_count
         /\ b_data' = a.data
         /\ UNCHANGED <<b_result, b_pc>>

\* state_diff_for_block: while let Some(resp) = stream.next().await { .. };
\* when the stream ends the for loop goes on.
SdForBlock ==
    /\ b_fn = "sd" /\ b_pc = "recv" /\ b_nresp < MaxResponses
    /\ \E resp \in StateDiffsResponses \cup {StreamEnd} :
         /\ b_nresp' = b_nresp + 1
         /\ b_heard' = Append(b_heard, resp)
         /\ IF resp.type = "End"
            THEN /\ b_pc' = "for"
                 /\ b_log' = Append(b_log, "ended")
                 /\ UNCHANGED <<current_count, b_data, b_result>>
            ELSE /\ BApply(SdForBlockResponse(resp, current_count, b_data, b_peer))
                 /\ UNCHANGED b_log
    /\ UNCHANGED <<b_fn, b_count, b_peers, b_peer, b_nreq>>
    /\ UNCHANGED <<svars, cvars>>

\* class_definitions_for_block: the while loop; Fin breaks out of it and the
\* end of the stream leaves it, both to the count check that returns.
ClForBlock ==
    /\ b_fn = "cl" /\ b_pc = "recv" /\ b_nresp < MaxResponses
    /\ \E resp \in ClassesResponses \cup {StreamEnd} :
         /\ b_nresp' = b_nresp + 1
         /\ b_heard' = Append(b_heard, resp)
         /\ IF resp.type \in {"End", "Fin"}
            THEN /\ b_result' = ClForBlockAfterLoop(current_count, b_data, b_peer)
                 /\ b_pc' = "returned"
                 /\ UNCHANGED <<current_count, b_data>>
            ELSE BApply(ClForBlockResponse(resp, current_count, b_data, FirstBlock, b_peer))
    /\ UNCHANGED <<b_fn, b_count, b_peers, b_peer, b_nreq, b_log>>
    /\ UNCHANGED <<svars, cvars>>

\* A call of state_diff_for_block or class_definitions_for_block for block
\* FirstBlock with a count of 0..MaxCount.
BlockCall ==
    /\ b_fn \in {"sd", "cl"}
    /\ b_count \in 0..MaxCount
    /\ b_peers = <<>>
    /\ b_peer = None
    /\ b_pc = "get_peers"
    /\ current_count = 0
    /\ b_data = <<>>
    /\ b_result = NoResult
    /\ b_nreq = 0
    /\ b_nresp = 0
    /\ b_heard = <<>>
    /\ b_log = <<>>

InitBlock ==
    /\ CacheInit
    /\ InitTask(MaxCount) /\ kind = "hdr" /\ range.stop = FirstBlock /\ ~range.reverse
    /\ BlockCall
NextBlock == BGetPeers \/ BNextPeer \/ SdForBlock \/ ClForBlock
SpecBlock == InitBlock /\ [][NextBlock]_vars

Next ==
    \/ FirstExpectation
    \/ GetPeers
    \/ ChannelSend
    \/ Consume
    \/ ConsumerDrop
    \/ HdrNextPeer
    \/ HdrResponse
    \/ HdrSent
    \/ TxNextPeer
    \/ TxResponse
    \/ TxSent
    \/ SdNextPeer
    \/ SdResponse
    \/ SdSent
    \/ ClNextPeer
    \/ ClResponse
    \/ ClYielded
    \/ EvNextPeer
    \/ EvResponse
    \/ EvYielded

Spec == Init /\ [][Next]_vars

\* ------------------------------------------------- one streamer at a time
\* The parts of the task every streamer shares, and the consumer.
Shared == GetPeers \/ ChannelSend \/ Consume \/ ConsumerDrop

InitHdr == Init /\ kind = "hdr"
NextHdr == Shared \/ HdrNextPeer \/ HdrResponse \/ HdrSent
SpecHdr == InitHdr /\ [][NextHdr]_vars

InitTx == Init /\ kind = "tx"
NextTx == FirstExpectation \/ Shared \/ TxNextPeer \/ TxResponse \/ TxSent
SpecTx == InitTx /\ [][NextTx]_vars

InitSd == Init /\ kind = "sd"
NextSd == FirstExpectation \/ Shared \/ SdNextPeer \/ SdResponse \/ SdSent
SpecSd == InitSd /\ [][NextSd]_vars

\* The peer cache alone, under NumCallers concurrent callers and a clock.
InitPeers == Init /\ kind = "hdr" /\ range.stop = FirstBlock /\ ~range.reverse
NextPeers ==
    \/ \E c \in Callers : Call(c)
    \/ \E c \in Callers : ReadAcquire(c)
    \/ \E c \in Callers : ReadGet(c)
    \/ \E c \in Callers : DropRead(c)
    \/ \E c \in Callers : WriteAcquire(c)
    \/ \E c \in Callers : Recheck(c)
    \/ \E c \in Callers : ClosestPeersArrive(c)
    \/ \E c \in Callers : Return(c)
    \/ Tick
SpecPeers == InitPeers /\ [][NextPeers]_vars

\* The same under a fair scheduler and a fair lock: a caller that can take a
\* step takes it, a lock request that can be granted again and again is
\* granted (tokio's RwLock queues its waiters), and get_closest_peers returns.
FairPeers ==
    \A c \in Callers :
        /\ SF_vars(ReadAcquire(c))
        /\ WF_vars(ReadGet(c))
        /\ WF_vars(DropRead(c))
        /\ SF_vars(WriteAcquire(c))
        /\ WF_vars(Recheck(c))
        /\ WF_vars(ClosestPeersArrive(c))
SpecPeersFair == SpecPeers /\ FairPeers

InitEvCl == Init /\ kind \in {"ev", "cl"}
NextEvCl ==
    \/ FirstExpectation
    \/ Shared
    \/ ClNextPeer
    \/ ClResponse
    \/ ClYielded
    \/ EvNextPeer
    \/ EvResponse
    \/ EvYielded
SpecEvCl == InitEvCl /\ [][NextEvCl]_vars

\* event_stream alone, with up to MaxEvents events in a block.
InitEv == CacheInit /\ InitTask(MaxEvents) /\ BlockIdle /\ kind = "ev"
NextEv == FirstExpectation \/ Shared \/ EvNextPeer \/ EvResponse \/ EvYielded
SpecEv == InitEv /\ [][NextEv]_vars

\* transaction_stream for one block on a Client whose cache it shares with
\* another caller: the task's get_peers() is get_random_peers().
TaskCaller == 1

\* get_peers().await begins: the task calls get_random_peers.
TaskCall == pc = "get_peers" /\ Call(TaskCaller)

\* get_peers().await resolves: the for loop takes the returned Vec.
TaskGetPeers ==
    /\ pc = "get_peers"
    /\ cpc[TaskCaller] = "returned"
    /\ peers' = result[TaskCaller]
    /\ pc' = NextPeerPc(result[TaskCaller])
    /\ cpc' = [cpc EXCEPT ![TaskCaller] = "idle"]
    /\ UNCHANGED <<kind, range, counts_stream, pulled, start, stop, progress, peer,
                   acc, txn, pending, yielded, consumed, rxClosed, nreq, lastReq, nresp,
                   got, srv, coop, asserted, dropped, cause, left, heard, sendErr>>
    /\ UNCHANGED <<now, decaying, lock, result, seen, ncalls, queries, updates>>
    /\ UNCHANGED bvars

InitStarved == Init /\ kind = "tx" /\ range.stop = FirstBlock
NextStarved ==
    \/ FirstExpectation
    \/ TaskCall
    \/ TaskGetPeers
    \/ \E c \in Callers \ {TaskCaller} : Call(c)
    \/ \E c \in Callers \ {TaskCaller} : Return(c)
    \/ \E c \in Callers : ReadAcquire(c)
    \/ \E c \in Callers : ReadGet(c)
    \/ \E c \in Callers : DropRead(c)
    \/ \E c \in Callers : WriteAcquire(c)
    \/ \E c \in Callers : Recheck(c)
    \/ \E c \in Callers : ClosestPeersArrive(c)
    \/ Tick
    \/ ChannelSend
    \/ Consume
    \/ TxNextPeer
    \/ TxResponse
    \/ TxSent
SpecStarved == InitStarved /\ [][NextStarved]_vars

\* ------------------------------------------------- serving peers, fairly
\* The streamers with every expected count >= 1, a full expectation stream,
\* a consumer that keeps reading, and peers that either fail the request or
\* serve the remaining range as the expectations describe it and end with
\* Fin.  A request fails only while another one may follow, and the items
\* expected and the final Fin fit into the responses the model reads.
RECURSIVE TotalCount(_)
TotalCount(b) == IF b > range.stop THEN 0 ELSE TrueCount(b) + TotalCount(b + 1)

InitLive ==
    /\ Init
    /\ kind # "hdr" => (FullExpectations /\ \A i \in 1..Len(counts_stream) :
                                               counts_stream[i].count >= 1)
    /\ kind \in {"tx", "sd"} => TotalCount(range.start) + 1 <= MaxResponses
    /\ kind \in {"ev", "cl"} => TotalCount(range.start) <= MaxResponses
    /\ kind = "hdr" => range.stop - range.start + 2 <= MaxResponses

\* The request is accepted unless a later request can still be made.
RequestServed == lastReq'.ok \/ nreq' < MaxRequests

LiveHdrNextPeer == HdrNextPeer /\ RequestServed
LiveTxNextPeer == TxNextPeer /\ RequestServed
LiveSdNextPeer == SdNextPeer /\ RequestServed
LiveClNextPeer == ClNextPeer /\ RequestServed
LiveEvNextPeer == EvNextPeer /\ RequestServed

\* The next header of the range while there is one, then Fin.
LiveHdrResponse ==
    /\ HdrResponse
    /\ heard'.valid
    /\ heard'.type = (IF done(dir, start, stop) THEN "Fin" ELSE "Header")
    /\ pc' = "send" => pending'[1].block = start

\* A transaction while the block lacks one, Fin after the last block.
LiveTxResponse ==
    /\ TxResponse
    /\ heard'.valid
    /\ heard'.type = (IF progress.count > 0 THEN "TransactionWithReceipt" ELSE "Fin")

\* An item of the block's state diff that the block still lacks, Fin after
\* the last block.
LiveSdResponse ==
    /\ SdResponse
    /\ IF progress.count > 0
       THEN /\ heard'.type \in {"ContractDiff", "DeclaredClass"}
            /\ pc' \in {"recv", "send"}
            /\ progress'.count < progress.count
       ELSE heard'.type = "Fin"

LiveClResponse == ClResponse /\ heard'.type = "Class" /\ heard'.valid

\* An event of the block; the first event of a block belongs to another
\* transaction than the last event of the block before.
LiveEvResponse ==
    /\ EvResponse
    /\ heard'.type = "Event" /\ heard'.valid
    /\ pc' # "panic"

NextLive ==
    \/ FirstExpectation
    \/ GetPeers
    \/ ChannelSend
    \/ Consume
    \/ LiveHdrNextPeer
    \/ LiveHdrResponse
    \/ HdrSent
    \/ LiveTxNextPeer
    \/ LiveTxResponse
    \/ TxSent
    \/ LiveSdNextPeer
    \/ LiveSdResponse
    \/ SdSent
    \/ LiveClNextPeer
    \/ LiveClResponse
    \/ ClYielded
    \/ LiveEvNextPeer
    \/ LiveEvResponse
    \/ EvYielded

\* Weak fairness of the task (its own steps, and get_peers() eventually
\* returning a peer), of the transport (requests answered, responses
\* delivered) and of the consumer.
FairLive ==
    /\ WF_vars(FirstExpectation) /\ WF_vars(GetPeers)
    /\ WF_vars(ChannelSend) /\ WF_vars(Consume)
    /\ WF_vars(LiveHdrNextPeer) /\ WF_vars(LiveHdrResponse) /\ WF_vars(HdrSent)
    /\ WF_vars(LiveTxNextPeer) /\ WF_vars(LiveTxResponse) /\ WF_vars(TxSent)
    /\ WF_vars(LiveSdNextPeer) /\ WF_vars(LiveSdResponse) /\ WF_vars(SdSent)
    /\ WF_vars(LiveClNextPeer) /\ WF_vars(LiveClResponse) /\ WF_vars(ClYielded)
    /\ WF_vars(LiveEvNextPeer) /\ WF_vars(LiveEvResponse) /\ WF_vars(EvYielded)
SpecLive == InitLive /\ [][NextLive]_vars /\ FairLive

\* ------------------------------------------------------------ properties
Range(f) == {f[x] : x \in DOMAIN f}
IsPrefix(s, t) == Len(s) <= Len(t) /\ \A i \in 1..Len(s) : s[i] = t[i]
Increasing(s) == \A i, j \in 1..Len(s) : i < j => s[i] < s[j]
NonDecreasing(s) == \A i, j \in 1..Len(s) : i < j => s[i] <= s[j]

\* The expectation of block b, and the block numbers of the yielded artifacts.
ExpectedOf(b) == counts_stream[b - range.start + 1]
YieldedBlocks == [i \in 1..Len(yielded) |-> yielded[i].block]
RangeBlocks == [i \in 1..(range.stop - range.start + 1) |-> range.start + i - 1]

\* Block b once per class definition expected for it, for b = first..stop.
RECURSIVE ClassBlocks(_)
ClassBlocks(b) ==
    IF b > range.stop THEN <<>>
    ELSE [j \in 1..TrueCount(b) |-> b] \o ClassBlocks(b + 1)

ExpectedBlocks == IF kind = "cl" THEN ClassBlocks(range.start) ELSE RangeBlocks

\* The stamps of every payload an artifact carries.
StampOf(x) == [att |-> x.att, from |-> x.from]
SdStamps(d) ==
    UNION {Range(d.contract_updates[a].storage) \cup Range(d.contract_updates[a].nonce)
             \cup {c.hash : c \in Range(d.contract_updates[a].class)} :
           a \in DOMAIN d.contract_updates}
    \cup UNION {Range(d.system_contract_updates[a].storage) :
                a \in DOMAIN d.system_contract_updates}
    \cup {c[2] : c \in d.declared_cairo_classes}
    \cup {k[2] : k \in DOMAIN d.declared_sierra_classes}
Stamps(a) ==
    CASE kind = "tx" -> {StampOf(t) : t \in Range(a.data)}
      [] kind = "sd" -> SdStamps(a.data)
      [] kind = "cl" -> {StampOf(a.data)}
      [] kind = "ev" -> UNION {{StampOf(e) : e \in Range(g[2])} : g \in Range(a.data)}
      [] OTHER -> {}

\* One peer answered the only request and has sent, so far, what the
\* expectations describe; every expectation is there; the consumer listens.
CooperativeRun == coop /\ nreq = 1 /\ FullExpectations /\ ~rxClosed
AllCountsPositive == \A i \in 1..Len(counts_stream) : counts_stream[i].count >= 1

ZeroCountCoverage ==
    (kind \in {"tx", "sd"} /\ CooperativeRun) =>
        /\ pc \in {"recv", "send", "done"}
        /\ IsPrefix(YieldedBlocks, RangeBlocks)
        /\ (pc = "done" => YieldedBlocks = RangeBlocks)
        /\ (srv.fin => pc = "done")
        /\ \A i \in 1..Len(yielded) :
             /\ yielded[i].commitment = ExpectedOf(yielded[i].block).commitment
             /\ yielded[i].got = ExpectedOf(yielded[i].block).count

\* C3: an artifact is yielded for a block only by an attempt that counted the
\* whole block, and everything in it was received on that attempt.
NoPartialLeakage ==
    kind # "hdr" =>
        \A i \in 1..Len(yielded) :
            LET a == yielded[i] IN
            /\ a.got = ExpectedOf(a.block).count
            /\ \A st \in Stamps(a) : st.att = a.att

NoPartialLeakageWitness ==
    /\ kind = "cl" /\ ~rxClosed /\ dropped >= 1
    /\ Len(yielded) = 2
    /\ yielded[1].att = 2 /\ yielded[1].block = range.start
    /\ yielded[2].att = 2 /\ yielded[2].block = range.start

\* C4: every attempt starts a block afresh (the remaining counter at the
\* block's expected count, nothing counted, the accumulator empty), and the
\* artifact it yields is the one it yields when it is the only attempt: the
\* block's commitment with this attempt's items, in the order they arrived.
FreshAttempt ==
    (kind # "hdr" /\ nreq' = nreq + 1 /\ lastReq'.ok) =>
        /\ progress'.count = ExpectedOf(start').count
        /\ got' = 0
        /\ acc' = IF kind = "sd" THEN StateUpdateDataDefault ELSE <<>>
AttemptAlone ==
    \A i \in 1..Len(yielded) :
        LET a == yielded[i] IN
        /\ kind \in {"tx", "sd"} => a.commitment = ExpectedOf(a.block).commitment
        /\ kind = "tx" =>
             a.data = [j \in 1..ExpectedOf(a.block).count |->
                          [att |-> a.att, from |-> a.from, idx |-> j - 1]]
        /\ kind = "sd" => Stamps(a) \subseteq {StampOf(a)}
Idempotence == [][FreshAttempt]_vars /\ [](kind # "hdr" => AttemptAlone)

IdempotenceWitness ==
    /\ kind = "sd" /\ ~rxClosed /\ dropped >= 1
    /\ nreq = 2 /\ lastReq.ok
    /\ Len(yielded) = 1
    /\ yielded[1].att = 2 /\ yielded[1].got = 2

\* C5: transaction_stream yields block numbers in strictly increasing order,
\* each at most once.
TxYieldsOnce == kind = "tx" => Increasing(YieldedBlocks)

\* C6: state_diff_stream yields block numbers in strictly increasing order,
\* each at most once.
SdYieldsOnce == kind = "sd" => Increasing(YieldedBlocks)

\* C7: event_stream yields block numbers in strictly increasing order, each
\* at most once; class_stream yields definitions with non-decreasing block
\* numbers.
EvClOrder ==
    /\ kind = "ev" => Increasing(YieldedBlocks)
    /\ kind = "cl" => NonDecreasing(YieldedBlocks)

EvClOrderWitness ==
    /\ kind = "ev" /\ dropped >= 1 /\ nreq = 2
    /\ Len(yielded) = 2 /\ yielded[1].att = 1 /\ yielded[2].att = 2

\* C8: header_stream asks for `dir` (Backward on reverse), first from the
\* range's first position in that direction and for the whole range; with a
\* cooperative peer it yields the positions start..stop (reverse: stop..start)
\* in that order, all of them by the time the task ends, and ends after Fin.
HdrPositions ==
    [i \in 1..(range.stop - range.start + 1) |->
        IF range.reverse THEN range.stop - i + 1 ELSE range.start + i - 1]
HeaderRange ==
    kind = "hdr" =>
        /\ nreq >= 1 =>
             lastReq.request.direction = IF range.reverse THEN "Backward" ELSE "Forward"
        /\ nreq = 1 =>
             /\ lastReq.request.start = IF range.reverse THEN range.stop ELSE range.start
             /\ lastReq.request.limit = range.stop - range.start + 1
        /\ (coop /\ nreq = 1 /\ ~rxClosed) =>
             /\ pc \in {"recv", "send", "done"}
             /\ IsPrefix(YieldedBlocks, HdrPositions)
             /\ (pc = "done" => YieldedBlocks = HdrPositions)
             /\ (srv.fin => pc = "done")

HeaderRangeWitness ==
    /\ kind = "hdr" /\ range.reverse /\ range.stop > range.start
    /\ coop /\ nreq = 1 /\ ~rxClosed
    /\ srv.fin /\ pc = "done"
    /\ YieldedBlocks = HdrPositions /\ consumed = Len(yielded)

\* C9: a yielded artifact carries the peer whose response produced it, which
\* is the peer that sent every item in it; the class definitions of one block
\* carry one peer.
PeerAttribution ==
    /\ \A i \in 1..Len(yielded) :
         LET a == yielded[i] IN
         /\ a.peer = a.from
         /\ \A st \in Stamps(a) : st.from = a.peer
    /\ kind = "cl" =>
         \A i, j \in 1..Len(yielded) :
             yielded[i].block = yielded[j].block => yielded[i].peer = yielded[j].peer

PeerAttributionWitness ==
    /\ kind = "hdr" /\ Len(yielded) = 2 /\ nreq = 2
    /\ yielded[1].att = 1 /\ yielded[2].att = 2
    /\ yielded[1].peer # yielded[2].peer
    /\ yielded[1].block = range.start /\ yielded[2].block = range.start + 1

\* C10: in transaction_stream and state_diff_stream the artifact of block
\* start + i carries the commitment of element i of the expectation stream; a
\* transaction list has as many entries as that element's count.
ExpectationAlignment ==
    kind \in {"tx", "sd"} =>
        \A i \in 1..Len(yielded) :
            LET a == yielded[i] IN
            /\ a.commitment = ExpectedOf(a.block).commitment
            /\ kind = "tx" => Len(a.data) = ExpectedOf(a.block).count

ExpectationAlignmentWitness ==
    /\ kind = "tx" /\ dropped >= 1 /\ nreq = 2
    /\ Len(yielded) = 2
    /\ yielded[1].block = range.start /\ yielded[2].block = range.start + 1
    /\ yielded[2].att = 2 /\ Len(yielded[2].data) = 2

\* Block b has been handed to the output channel (a block without class
\* definitions has nothing to hand over).
Completed(b) ==
    \/ \E i \in 1..Len(yielded) : yielded[i].block = b
    \/ \E i \in 1..Len(pending) : pending[i].block = b
    \/ kind = "cl" /\ TrueCount(b) = 0

\* C11: a per-block streamer polls the expectation stream at most once per
\* block of the range and at most once more than the blocks it has yielded;
\* when it ends after the final block it has polled stop - start + 1 times.
Lockstep ==
    kind # "hdr" =>
        /\ pulled <= range.stop - range.start + 1
        /\ pulled <= (start - range.start) + 1
        /\ ~rxClosed => \A b \in range.start..(start - 1) : Completed(b)
        /\ (pc = "done" /\ ~rxClosed /\ start = range.stop /\ Completed(range.stop))
              => pulled = range.stop - range.start + 1

LockstepWitness ==
    /\ kind = "ev" /\ pc = "done" /\ ~rxClosed /\ nreq = 2 /\ dropped >= 1
    /\ range.stop = range.start + 1
    /\ YieldedBlocks = RangeBlocks
    /\ pulled = 2

\* The last poll of the expectation stream returned its end or an Err item.
ExpectationFailed ==
    /\ pulled >= 1
    /\ pulled > Len(counts_stream) \/ ~counts_stream[pulled].ok

\* C12: once a poll of the expectation stream fails the task has ended, with
\* nothing yielded for the block the poll was for and every earlier block
\* handed over; it sends no request and reads no response afterwards; when
\* the first poll fails no peer list was fetched, no request sent and nothing
\* yielded.
ExpectationEnded ==
    (kind # "hdr" /\ ExpectationFailed) =>
        /\ pc = "done"
        /\ pending = <<>>
        /\ \A i \in 1..Len(yielded) : yielded[i].block # range.start + pulled - 1
        /\ ~rxClosed => \A b \in range.start..(range.start + pulled - 2) : Completed(b)
        /\ pulled = 1 => (nreq = 0 /\ nresp = 0 /\ peers = <<>> /\ yielded = <<>>)
ExpectationEndedQuiet ==
    (kind # "hdr" /\ ExpectationFailed) =>
        (nreq' = nreq /\ nresp' = nresp /\ pulled' = pulled /\ peers' = peers
         /\ yielded' = yielded)
EarlyTermination == []ExpectationEnded /\ [][ExpectationEndedQuiet]_vars

EarlyTerminationWitness ==
    /\ kind = "sd" /\ ~rxClosed /\ ExpectationFailed
    /\ range.stop = range.start + 1
    /\ pulled = 2 /\ Len(counts_stream) = 1
    /\ Len(yielded) = 1 /\ yielded[1].block = range.start /\ yielded[1].got >= 1
    /\ consumed = 1

\* C13: transaction_stream and state_diff_stream do not end on a block before
\* the final one, whatever a peer sends for it: an item the remaining counter
\* does not admit sends the task to the next peer.  (Only a failed poll of the
\* expectation stream ends the task there; stated for blocks that expect at
\* least one item.)
OverDeliveryRotates ==
    (kind \in {"tx", "sd"} /\ start < stop /\ progress.count_backup >= 1
     /\ pc \in {"done", "panic"})
        => ExpectationFailed

\* C14: in transaction_stream and state_diff_stream an item the remaining
\* counter does not admit on the final block ends the task: nothing is left to
\* send, and afterwards no request is sent, no response read and no artifact
\* yielded, so the item reaches no artifact.
OverDeliveryEnded ==
    (kind \in {"tx", "sd"} /\ cause = "over" /\ start = stop) =>
        pc = "done" /\ pending = <<>> /\ acc = EmptyAcc
OverDeliveryQuiet ==
    (kind \in {"tx", "sd"} /\ cause = "over" /\ start = stop) =>
        (nreq' = nreq /\ nresp' = nresp /\ peers' = peers /\ yielded' = yielded
         /\ pc' = pc)
OverDeliveryTerminates == []OverDeliveryEnded /\ [][OverDeliveryQuiet]_vars

OverDeliveryTerminatesWitness ==
    /\ kind = "sd" /\ cause = "over" /\ start = stop /\ ~rxClosed
    /\ range.stop = range.start + 1
    /\ nreq = 1 /\ peers # <<>>
    /\ progress.count_backup = 2 /\ progress.count = 1
    /\ YieldedBlocks = <<range.start>>

\* The task has left a peer on a Fin that came while items of the current
\* block were outstanding, and has not yet had another request accepted.
PrematureFin ==
    /\ kind # "hdr" /\ left = "Fin" /\ progress.count > 0
    /\ pc \in {"next_peer", "get_peers"}

\* What the streamer's handle_response says to a Fin in the current state.
FinLeavesPeer ==
    CASE kind = "tx" -> TxHandleResponse(Fin, progress, 0, start = stop).action = "NextPeer"
      [] kind = "sd" -> SdHandleResponse(Fin, acc, progress, start = stop).action = "NextPeer"
      [] kind = "cl" -> ~ClHandleResponse(Fin, start).some
      [] kind = "ev" -> EvHandleResponse(Fin, txn, acc).next_peer
      [] OTHER -> TRUE

\* C15: a Fin while items are outstanding makes the task leave the peer;
\* the attempt leaves nothing behind and nothing of it was yielded for the
\* current block; the next accepted request asks for that same block, with
\* the remaining counter back at the block's expected count.
UnderDeliveryLeaves ==
    /\ (kind # "hdr" /\ pc = "recv" /\ progress.count > 0) => FinLeavesPeer
    /\ PrematureFin =>
         /\ acc = EmptyAcc /\ got = 0 /\ pending = <<>>
         /\ \A i \in 1..Len(yielded) :
              ~(yielded[i].block = start /\ yielded[i].att = nreq)
UnderDeliveryRetry ==
    (PrematureFin /\ nreq' = nreq + 1 /\ lastReq'.ok) =>
        /\ start' = start
        /\ lastReq'.request.start = start
        /\ progress'.count = ExpectedOf(start).count
        /\ got' = 0
UnderDelivery == []UnderDeliveryLeaves /\ [][UnderDeliveryRetry]_vars

UnderDeliveryWitness ==
    /\ kind = "ev" /\ left = "Fin" /\ dropped >= 1
    /\ nreq = 2 /\ lastReq.ok /\ pc = "recv" /\ got = 0
    /\ start = range.start + 1
    /\ progress.count = 2 /\ progress.count_backup = 2

\* The task is past the last position of its range.
PastFinal == IF kind = "hdr" THEN done(dir, start, stop) ELSE start = stop

\* C16: the task ends only after completing the range (the final yield, or a
\* Fin, a missing Fin or anything else received once the final block is
\* complete), on a failed poll of the expectation stream, or on an item the
\* counter does not admit on the final block; a request failure, a parse
\* failure, a premature Fin or a response stream ending mid-block never end it.
SelfHealing ==
    pc \in {"done", "panic"} =>
        /\ pc = "done"
        /\ \/ cause \in {"complete", "expectation"}
           \/ cause \in {"fin", "end"} /\ PastFinal /\ (kind # "hdr" => progress.count = 0)
           \/ cause \in {"over", "parse"} /\ PastFinal

\* C17: once a send has failed on the closed output channel the task exits:
\* it is done, or still inside the yield whose send failed, and does not go
\* back to asking peers or reading responses.
Cancellation ==
    sendErr => pc \in {"send", "done"}

\* The task has an artifact to send and the channel is full.
Blocked ==
    /\ pc = "send" /\ pending # <<>>
    /\ ~rxClosed /\ Len(yielded) - consumed = Capacity

\* C18: the output channel buffers at most Capacity = 1 unconsumed artifact;
\* while it is full and the task has another artifact to send, the task reads
\* no response, polls no expectation, keeps its cursor and sends no request.
BufferBound == ~rxClosed => Len(yielded) - consumed <= Capacity
BlockedWaits ==
    Blocked => /\ nresp' = nresp /\ pulled' = pulled /\ start' = start
               /\ nreq' = nreq /\ pending' = pending /\ pc' = pc
Backpressure == []BufferBound /\ [][BlockedWaits]_vars

BackpressureWitness ==
    /\ Blocked /\ kind = "sd"
    /\ Len(yielded) = 1 /\ consumed = 0
    /\ yielded[1].block = range.start /\ pending[1].block = range.start + 1

\* Two calls that both found the cache stale at their read check, with no
\* transport query started between the two checks, and both obtained their
\* result no later than Timeout after the refresh that followed.
InWindow(c) ==
    /\ Len(updates) > seen[c].q0
    /\ seen[c].at <= updates[seen[c].q0 + 1].at + Timeout
ConcurrentStale(c, d) ==
    /\ c # d
    /\ cpc[c] = "returned" /\ cpc[d] = "returned"
    /\ seen[c].stale /\ seen[d].stale
    /\ seen[c].q0 = seen[d].q0
    /\ InWindow(c) /\ InWindow(d)

\* C19: two get_random_peers calls that run concurrently on a stale cache
\* cause exactly one get_closest_peers call between them, whatever the order
\* of read-lock release, write-lock acquisition and re-check, and they return
\* the same set of peers (each in its own order).
SingleFlight ==
    \A c \in Callers : \A d \in Callers :
        ConcurrentStale(c, d) =>
            /\ seen[c].n = seen[c].q0 + 1
            /\ seen[d].n = seen[d].q0 + 1
            /\ Range(result[c]) = Range(result[d])
            /\ Range(result[c]) = updates[seen[c].q0 + 1].data

SingleFlightWitness ==
    \E c \in Callers : \E d \in Callers :
        /\ ConcurrentStale(c, d)
        /\ queries[seen[c].q0 + 1].by = c
        /\ Len(result[c]) = 2
        /\ result[d] # result[c]
        /\ seen[d].at > seen[c].at

\* C20: after the cache is updated at time t no get_closest_peers call starts
\* until more than Timeout has elapsed since t, and every call that obtains
\* its result in that window returns the peers that update installed.
QueryAfterWindow ==
    \A i \in 1..Len(updates) : \A j \in 1..Len(queries) :
        j > i => queries[j].at > updates[i].at + Timeout
ServedFromUpdate ==
    \A c \in Callers :
        (cpc[c] = "returned" /\ seen[c].n >= 1
            /\ seen[c].at <= updates[seen[c].n].at + Timeout)
        => Range(result[c]) = updates[seen[c].n].data
OneQueryPerWindow == QueryAfterWindow /\ ServedFromUpdate

OneQueryPerWindowWitness ==
    /\ Len(queries) = 2 /\ Len(updates) = 1
    /\ queries[2].at = updates[1].at + Timeout + 1
    /\ \E c \in Callers :
         /\ cpc[c] = "returned" /\ ~seen[c].stale /\ seen[c].n = 1
         /\ seen[c].at = updates[1].at + Timeout
         /\ result[c] # <<>>

\* The time and the value of the last update, or of construction.
LastStamp == IF updates = <<>> THEN 0 ELSE updates[Len(updates)].at
LastValue == IF updates = <<>> THEN {} ELSE updates[Len(updates)].data

\* C21: get() returns the stored value iff the time elapsed since the last
\* update (or construction) is <= the timeout, the boundary included; the
\* value it returns is the one last given to update(); only update() changes
\* the cache.
DecayingGetSpec ==
    /\ DecayingGet(decaying, now).some <=> (now - LastStamp <= Timeout)
    /\ DecayingGet(decaying, now).some => DecayingGet(decaying, now).data = LastValue
GetIsPure == (updates' = updates) => (decaying' = decaying)
DecayingContract == []DecayingGetSpec /\ [][GetIsPure]_vars

DecayingContractWitness ==
    /\ Len(updates) = 1 /\ updates[1].data # {}
    /\ now = updates[1].at + Timeout
    /\ \E c \in Callers :
         /\ cpc[c] = "returned" /\ ~seen[c].stale
         /\ seen[c].at = now /\ seen[c].n = 1
         /\ Range(result[c]) = updates[1].data
    /\ \E d \in Callers : cpc[d] = "read"

\* C22: no list get_random_peers returns holds the local node's PeerId,
\* whichever path returned it, and no set installed in the cache holds it.
SelfExclusion ==
    /\ \A c \in Callers : SelfId \notin Range(result[c])
    /\ SelfId \notin decaying.data
    /\ \A i \in 1..Len(updates) : SelfId \notin updates[i].data

SelfExclusionWitness ==
    \E c \in Callers : \E d \in Callers :
        /\ c # d /\ cpc[c] = "returned" /\ cpc[d] = "returned"
        /\ Len(updates) = 1 /\ SelfId \in updates[1].raw /\ updates[1].data # {}
        /\ queries[1].by = c /\ seen[d].stale /\ seen[d].n = 1
        /\ Range(result[c]) = updates[1].data
        /\ Range(result[d]) = updates[1].data

\* C23: the list of every call that has returned went through the shuffle,
\* whether it was served under the read lock, on the re-check under the write
\* lock, or from a new transport query.
AlwaysShuffled ==
    \A c \in Callers : cpc[c] = "returned" => seen[c].shuffled

\* The elementary items of a state diff response: storage values, a nonce, a
\* class hash, a declared class.
ItemCount(r) ==
    IF r.type = "ContractDiff"
    THEN r.values + (IF r.nonce THEN 1 ELSE 0) + (IF r.class_hash THEN 1 ELSE 0)
    ELSE IF r.type = "DeclaredClass" THEN 1 ELSE 0

\* C24: whenever state_diff_stream awaits a response, whatever ContractDiff or
\* DeclaredClass arrives next is counted by its elementary items, whatever
\* its address: it is accepted with remaining reduced by exactly that number
\* when that many remain, and refused otherwise.
SdItemCounting ==
    (kind = "sd" /\ pc = "recv") =>
        \A r \in StateDiffsResponses \ {Fin} :
            LET a == SdHandleResponse(r, acc, progress, start = stop) IN
            IF ItemCount(r) <= progress.count
            THEN a.action = "TryYield" /\ a.progress.count = progress.count - ItemCount(r)
            ELSE a.action = "TerminateStream"

\* The entry of a map, or the given default; a storage map after n writes
\* stamped t were added to s0.
EntryOr(map, k, d) == IF k \in DOMAIN map THEN map[k] ELSE d
StorageAfter(s1, s0, n, t) ==
    /\ DOMAIN s1 = (DOMAIN s0) \cup (1..n)
    /\ \A k \in 1..n : s1[k] = t
    /\ \A k \in (DOMAIN s0) \ (1..n) : s1[k] = s0[k]
OthersKept(m1, m0, k) ==
    /\ DOMAIN m1 = (DOMAIN m0) \cup {k}
    /\ \A x \in (DOMAIN m0) \ {k} : m1[x] = m0[x]

\* What an accepted response r adds to the state diff d0, giving d1.
SdAdds(r, d0, d1) ==
    IF r.type = "ContractDiff" /\ r.address = ONE THEN
        /\ OthersKept(d1.system_contract_updates, d0.system_contract_updates, ONE)
        /\ StorageAfter(d1.system_contract_updates[ONE].storage,
                        EntryOr(d0.system_contract_updates, ONE, [storage |-> <<>>]).storage,
                        r.values, Stamp)
        /\ d1.contract_updates = d0.contract_updates
        /\ d1.declared_cairo_classes = d0.declared_cairo_classes
        /\ d1.declared_sierra_classes = d0.declared_sierra_classes
    ELSE IF r.type = "ContractDiff" THEN
        LET u0 == EntryOr(d0.contract_updates, r.address,
                          [storage |-> <<>>, nonce |-> <<>>, class |-> <<>>])
            u1 == d1.contract_updates[r.address]
        IN
        /\ OthersKept(d1.contract_updates, d0.contract_updates, r.address)
        /\ StorageAfter(u1.storage, u0.storage, r.values, Stamp)
        /\ u1.nonce = IF r.nonce THEN <<Stamp>> ELSE u0.nonce
        /\ u1.class = IF r.class_hash
                      THEN <<[update |-> "Deploy", hash |-> Stamp]>> ELSE u0.class
        /\ d1.system_contract_updates = d0.system_contract_updates
        /\ d1.declared_cairo_classes = d0.declared_cairo_classes
        /\ d1.declared_sierra_classes = d0.declared_sierra_classes
    ELSE IF r.type = "DeclaredClass" THEN
        /\ d1.contract_updates = d0.contract_updates
        /\ d1.system_contract_updates = d0.system_contract_updates
        /\ IF r.compiled
           THEN /\ OthersKept(d1.declared_sierra_classes, d0.declared_sierra_classes,
                              <<"class", Stamp>>)
                /\ d1.declared_sierra_classes[<<"class", Stamp>>] = <<"casm", Stamp>>
                /\ d1.declared_cairo_classes = d0.declared_cairo_classes
           ELSE /\ d1.declared_cairo_classes =
                       d0.declared_cairo_classes \cup {<<"class", Stamp>>}
                /\ d1.declared_sierra_classes = d0.declared_sierra_classes
    ELSE d1 = d0

\* C25: every response state_diff_stream accepts goes to its place in the
\* state diff and changes nothing else: storage of address 0x1 under
\* system_contract_updates, storage, nonce and Deploy(class_hash) of any other
\* address under contract_updates, a DeclaredClass in the Sierra map or the
\* Cairo-zero set; a yielded state diff has system contract updates for 0x1
\* only, no contract update for 0x1, and payloads of one request only.
SdAssembly ==
    /\ (kind = "sd" /\ pc = "recv") =>
          \A r \in StateDiffsResponses :
              LET a == SdHandleResponse(r, acc, progress, start = stop) IN
              a.action = "TryYield" => SdAdds(r, acc, a.state_diff)
    /\ kind = "sd" =>
          \A i \in 1..Len(yielded) :
              /\ DOMAIN yielded[i].data.system_contract_updates \subseteq {ONE}
              /\ ONE \notin DOMAIN yielded[i].data.contract_updates
              /\ \A t \in SdStamps(yielded[i].data) : t.att = yielded[i].att

SdAssemblyWitness ==
    /\ kind = "sd" /\ Len(yielded) = 2
    /\ ONE \in DOMAIN yielded[1].data.system_contract_updates
    /\ DOMAIN yielded[1].data.system_contract_updates[ONE].storage = {1}
    /\ "0xA" \in DOMAIN yielded[1].data.contract_updates
    /\ yielded[1].data.contract_updates["0xA"].nonce # <<>>
    /\ "0xA" \in DOMAIN yielded[2].data.contract_updates
    /\ yielded[2].data.contract_updates["0xA"].class # <<>>
    /\ yielded[2].data.declared_sierra_classes # <<>>

\* The events of the groups, one after the other.
RECURSIVE Flatten(_)
Flatten(groups) ==
    IF groups = <<>> THEN <<>> ELSE Head(groups)[2] \o Flatten(Tail(groups))

\* C26: in every block event_stream yields, the groups concatenated are the
\* events received for the block on one request, in the order received; every
\* group is non-empty and holds events of its own transaction hash only;
\* adjacent groups have different hashes (so a hash that comes back after
\* another one starts a new group); the events are as many as expected.
EventGrouping ==
    kind = "ev" =>
        \A i \in 1..Len(yielded) :
            LET groups == yielded[i].data
                events == Flatten(groups)
            IN /\ \A k \in 1..Len(events) :
                      events[k].idx = k - 1 /\ events[k].att = yielded[i].att
               /\ \A g \in 1..Len(groups) :
                      /\ groups[g][2] # <<>>
                      /\ \A k \in 1..Len(groups[g][2]) : groups[g][2][k].tx = groups[g][1]
               /\ \A g \in 1..(Len(groups) - 1) : groups[g][1] # groups[g + 1][1]
               /\ Len(events) = ExpectedOf(yielded[i].block).count

EventGroupingWitness ==
    /\ kind = "ev" /\ Len(yielded) = 1
    /\ Len(yielded[1].data) = 3
    /\ yielded[1].data[1][1] = "txA" /\ Len(yielded[1].data[1][2]) = 2
    /\ yielded[1].data[2][1] = "txB" /\ Len(yielded[1].data[2][2]) = 1
    /\ yielded[1].data[3][1] = "txA" /\ Len(yielded[1].data[3][2]) = 1

\* The items of a response as state_diff_for_block counts them: storage
\* values, and for a contract other than 0x1 its nonce and class hash; a
\* declared class.
CountedItems(r) ==
    IF r.type = "ContractDiff"
    THEN r.values + (IF r.address # ONE /\ r.nonce THEN 1 ELSE 0)
                  + (IF r.address # ONE /\ r.class_hash THEN 1 ELSE 0)
    ELSE IF r.type = "DeclaredClass" THEN 1 ELSE 0
RECURSIVE SumCounted(_)
SumCounted(rs) == IF rs = <<>> THEN 0 ELSE CountedItems(Head(rs)) + SumCounted(Tail(rs))
HeardFin == \E i \in 1..Len(b_heard) : b_heard[i].type = "Fin"

HeardClasses == {i \in 1..Len(b_heard) : b_heard[i].type = "Class"}

\* C28: class_definitions_for_block returns Ok(Some((peer, defs))) only with
\* exactly the count asked for, every definition tagged with the requested
\* block and received from that peer on that request; a peer that sends more
\* or fewer gives Err(IncorrectClassDefinitionCount(peer)); a definition that
\* does not parse gives Err(CairoDefinitionError(peer)) or
\* Err(SierraDefinitionError(peer)) by its variant; Ok(None) is returned only
\* when the request to every peer failed.
ClassDefinitionsForBlock ==
    b_fn = "cl" =>
        /\ b_pc = "recv" =>
             /\ b_result = NoResult
             /\ Cardinality(HeardClasses) = Len(b_heard)
             /\ Len(b_heard) <= b_count
             /\ \A i \in HeardClasses : b_heard[i].valid
        /\ b_pc = "returned" =>
             CASE b_result.tag = "OkSome" ->
                    /\ b_result.peer = b_peer
                    /\ Len(b_result.data) = b_count
                    /\ Cardinality(HeardClasses) = b_count
                    /\ \A i \in 1..Len(b_result.data) :
                          /\ b_result.data[i].block_number = FirstBlock
                          /\ b_result.data[i].att = b_nreq
                          /\ b_result.data[i].from = b_peer
                          /\ b_result.data[i].variant =
                                (IF b_heard[i].variant = "Cairo0" THEN "Cairo" ELSE "Sierra")
               [] b_result.tag = "Err" ->
                    /\ b_result.peer = b_peer
                    /\ LET last == b_heard[Len(b_heard)] IN
                       CASE b_result.error = "IncorrectClassDefinitionCount" ->
                              Cardinality(HeardClasses) # b_count
                         [] b_result.error = "CairoDefinitionError" ->
                              last.type = "Class" /\ ~last.valid /\ last.variant = "Cairo0"
                         [] b_result.error = "SierraDefinitionError" ->
                              last.type = "Class" /\ ~last.valid /\ last.variant = "Cairo1"
                         [] OTHER -> FALSE
               [] b_result.tag = "OkNone" ->
                    /\ b_peers = <<>>
                    /\ Len(b_log) = b_nreq
                    /\ \A i \in 1..Len(b_log) : b_log[i] = "failed"
               [] OTHER -> FALSE

ClassDefinitionsForBlockWitness ==
    /\ b_fn = "cl" /\ b_pc = "returned" /\ b_result.tag = "OkSome"
    /\ b_count = 2 /\ b_nreq = 2 /\ b_log = <<"failed">>
    /\ b_result.data[1].variant = "Sierra" /\ b_result.data[2].variant = "Cairo"
    /\ b_heard[3].type = "Fin"

\* The artifacts yielded before the last request was sent.
YieldedBefore == {i \in 1..Len(yielded) : yielded[i].att < nreq}

\* C29: the last request sent has step 1, starts at the first block not
\* yielded before it was sent (reverse headers: the highest position not yet
\* yielded) and its limit is the number of blocks from there to the end of
\* the range, at least 1; no block yielded before it is asked for again.
RemainingRange ==
    nreq >= 1 =>
        LET q == lastReq.request IN
        /\ q.step = 1
        /\ q.limit >= 1
        /\ IF kind = "hdr"
           THEN /\ q.direction = (IF range.reverse THEN "Backward" ELSE "Forward")
                /\ q.start >= range.start /\ q.start <= range.stop
                /\ q.limit = IF range.reverse THEN q.start - range.start + 1
                                              ELSE range.stop - q.start + 1
                /\ ~rxClosed =>
                      Cardinality(YieldedBefore) =
                          (IF range.reverse THEN range.stop - q.start
                                            ELSE q.start - range.start)
           ELSE /\ q.direction = "Forward"
                /\ q.start >= range.start /\ q.start <= range.stop
                /\ q.limit = range.stop - q.start + 1
                /\ \A i \in YieldedBefore : yielded[i].block < q.start
                /\ ~rxClosed =>
                      \A b \in range.start..(q.start - 1) :
                          \/ \E i \in YieldedBefore : yielded[i].block = b
                          \/ kind = "cl" /\ TrueCount(b) = 0

\* C30: in the per-block streamers 0 <= count <= count_backup at every
\* point; rollback sets count to count_backup and leaves count_backup and the
\* commitment as they are; count_backup changes only when the expectation of
\* a new block is installed; within one request and one block the count never
\* increases.
ProgressBounds ==
    kind # "hdr" =>
        progress.count >= 0 /\ progress.count <= progress.count_backup
ProgressSteps ==
    kind # "hdr" =>
        /\ progress'.count_backup # progress.count_backup =>
              pulled' = pulled + 1 /\ progress' = ProgressNew(StreamNext)
        /\ (nreq' = nreq /\ pulled' = pulled) => progress'.count <= progress.count
        /\ (nreq' = nreq + 1 /\ lastReq'.ok) =>
              progress' = [progress EXCEPT !.count = progress.count_backup]
ProgressCounter == []ProgressBounds /\ [][ProgressSteps]_vars

ProgressCounterWitness ==
    /\ kind = "sd" /\ pc = "recv" /\ nreq = 2 /\ lastReq.ok
    /\ start = range.start + 1
    /\ counts_stream[1].count = 1 /\ counts_stream[2].count = 2
    /\ progress.count = 2 /\ progress.count_backup = 2
    /\ progress.commitment = counts_stream[2].commitment
    /\ dropped >= 1 /\ got = 0

\* C31: natural end.  In transaction_stream and state_diff_stream, once the
\* final block has been completed and yielded on the current request, a Fin
\* or the end of the response stream ends the task, with no further request
\* and nothing more yielded; in event_stream and class_stream the task ends
\* right after the sends of the final block, reading no further response.  A
\* task that has ended does nothing more.
FinalDelivered ==
    /\ kind \in {"tx", "sd"} /\ pc = "recv" /\ start = stop /\ progress.count = 0
    /\ yielded # <<>>
    /\ yielded[Len(yielded)].block = stop
    /\ yielded[Len(yielded)].att = nreq
NaturalEndOnFin ==
    (FinalDelivered /\ nresp' = nresp + 1 /\ heard'.type \in {"Fin", "End"}) =>
        /\ pc' = "done"
        /\ cause' = (IF heard'.type = "Fin" THEN "fin" ELSE "end")
        /\ nreq' = nreq /\ yielded' = yielded /\ pending' = <<>>
NaturalEndAfterYield ==
    (kind \in {"ev", "cl"} /\ pc = "send" /\ start = stop) =>
        /\ nresp' = nresp /\ nreq' = nreq
        /\ pc' \in {"send", "done"}
        /\ (pending = <<>> /\ pc' # pc) => (pc' = "done" /\ cause' = "complete")
        /\ (pending = <<>>) => (yielded' = yielded /\ pending' = <<>>)
EndedForGood ==
    (pc = "done") => (pc' = "done" /\ nreq' = nreq /\ nresp' = nresp /\ yielded' = yielded)
NaturalEnd == [][NaturalEndOnFin /\ NaturalEndAfterYield /\ EndedForGood]_vars
\* state_diff_stream over two blocks ended on a missing Fin after the final
\* block, having asked one peer.
NaturalEndWitness ==
    /\ kind = "sd" /\ pc = "done" /\ cause = "end" /\ heard.type = "End"
    /\ range.stop > range.start /\ nreq = 1
    /\ Len(yielded) = 2 /\ yielded[2].block = stop

\* C32: in transaction_stream and state_diff_stream no debug_assert!(is_last_block)
\* is ever evaluated to false: the branch where the decrement of the remaining
\* count would underflow is taken on the final block only.
DebugAssertHolds == (kind \in {"tx", "sd"}) => ~asserted

\* C33: per-block transaction index.  In transaction_stream the k-th
\* transaction (0-based) received on one request for the block being
\* assembled is parsed with index k: the transactions held for the block all
\* arrived on the current request and carry the indices 0, 1, .., every
\* yielded block carries the indices 0, 1, .., and while the block is
\* incomplete the next transaction is parsed with the number of transactions
\* received for the block on this request.
ValidTransaction == [type |-> "TransactionWithReceipt", valid |-> TRUE]
IndexedFromZero(transactions) ==
    \A i \in 1..Len(transactions) : transactions[i].idx = i - 1
TransactionIndexing ==
    (kind = "tx") =>
        /\ IndexedFromZero(acc)
        /\ \A i \in 1..Len(acc) : acc[i].att = nreq
        /\ \A a \in Range(yielded) \cup Range(pending) : IndexedFromZero(a.data)
        /\ (pc = "recv" /\ progress.count > 0) =>
              /\ Len(acc) = got
              /\ TxHandleResponse(ValidTransaction, progress, into_idx(Len(acc)),
                                  start = stop).txn.idx = got
\* The second peer served block 11 with two transactions after the first
\* peer had served block 10.
TransactionIndexingWitness ==
    /\ kind = "tx" /\ nreq = 2 /\ Len(yielded) = 2
    /\ yielded[1].att = 1 /\ yielded[1].block = FirstBlock
    /\ yielded[2].att = 2 /\ yielded[2].block = FirstBlock + 1
    /\ Len(yielded[2].data) = 2
    /\ yielded[2].data[1].idx = 0 /\ yielded[2].data[2].idx = 1

\* C34: header_stream ends only after it has sent all stop - start + 1
\* headers to the output channel.  While the cursor has not passed the end no
\* response (header, parse failure, Fin, end of the response stream) ends the
\* task; at most stop - start + 1 headers are yielded; once the cursor has
\* passed the end the task only waits for one more response, which ends it
\* without yielding anything, and no request is sent.
HdrSize == range.stop - range.start + 1
HdrMoved == IF range.reverse THEN range.stop - start ELSE start - range.start
HdrPastEnd == IF range.reverse THEN start < range.start ELSE start > range.stop
HdrCompletionState ==
    /\ Len(yielded) <= HdrSize
    /\ pc # "panic"
    /\ HdrMoved \in 0..HdrSize
    /\ HdrPastEnd <=> (HdrMoved = HdrSize)
    /\ ~sendErr => (Len(yielded) + Len(pending) = HdrMoved + (IF pc = "send" THEN 1 ELSE 0))
    /\ (pc = "done") => HdrPastEnd
    /\ HdrPastEnd => pc \in {"recv", "done"}
HdrCompletionStep ==
    /\ (~HdrPastEnd /\ nresp' = nresp + 1) => pc' \in {"recv", "send", "next_peer", "get_peers"}
    /\ (HdrPastEnd /\ nresp' = nresp + 1) =>
            (pc' = "done" /\ yielded' = yielded /\ pending' = <<>>)
    /\ HdrPastEnd => nreq' = nreq
HdrCompletion ==
    [](kind = "hdr" => HdrCompletionState) /\ [][kind = "hdr" => HdrCompletionStep]_vars
\* A reverse call for two blocks was served by its second request and ended
\* on a third header, which was not yielded.
HdrCompletionWitness ==
    /\ kind = "hdr" /\ range.reverse /\ HdrSize = 2 /\ nreq = 2
    /\ pc = "done" /\ cause = "over" /\ heard.type = "Header" /\ heard.valid
    /\ Len(yielded) = 2

\* C35: event_stream never panics on what a peer sends: expect("not empty")
\* is never reached with an empty group list.
EventsNeverPanic == (kind = "ev") => (pc # "panic")

\* C36: the cache of a new Client (constructed at time 0) is fresh and holds
\* the empty set.  No get_closest_peers call starts until more than Timeout
\* has elapsed since construction, and every get_random_peers call that reads
\* the cache before that returns the empty list, found fresh, from the value
\* of construction.
FreshWhenConstructed ==
    /\ \A j \in 1..Len(queries) : queries[j].at > Timeout
    /\ \A i \in 1..Len(updates) : updates[i].at > Timeout
    /\ (now <= Timeout) => \A c \in Callers : cpc[c] \notin {"stale", "write_wait", "recheck", "transport"}
    /\ \A c \in Callers :
         (cpc[c] = "returned" /\ seen[c].at <= Timeout) =>
             (result[c] = <<>> /\ ~seen[c].stale /\ seen[c].n = 0)
\* A call returned the empty list at time Timeout without a query, and the
\* first query started one tick later.
FreshWhenConstructedWitness ==
    /\ Len(queries) = 1 /\ queries[1].at = Timeout + 1
    /\ \E c \in Callers :
         /\ cpc[c] = "returned" /\ seen[c].at = Timeout
         /\ ~seen[c].stale /\ seen[c].n = 0 /\ result[c] = <<>>

\* C37: a failed get_closest_peers installs the empty set with a new
\* timestamp.  Until more than Timeout has elapsed since then no other query
\* starts and every get_random_peers call served from it returns the empty
\* list; a streamer that is handed such a list sends no request, yields
\* nothing and goes on asking for peers.  While no query has succeeded the
\* streamer has sent no request and yielded nothing, and has not ended for
\* want of peers.
FailedQueryInstallsEmpty ==
    \A i \in 1..Len(updates) :
        ~updates[i].ok =>
            /\ updates[i].data = {}
            /\ \A j \in 1..Len(queries) : j > i => queries[j].at > updates[i].at + Timeout
            /\ \A c \in Callers :
                 (cpc[c] = "returned" /\ seen[c].n = i
                     /\ seen[c].at <= updates[i].at + Timeout) => result[c] = <<>>
ServedByFailure(c) ==
    /\ cpc[c] = "returned" /\ seen[c].n >= 1
    /\ ~updates[seen[c].n].ok
    /\ seen[c].at <= updates[seen[c].n].at + Timeout
StarvedGetPeers ==
    (pc = "get_peers" /\ ServedByFailure(TaskCaller) /\ cpc'[TaskCaller] = "idle") =>
        /\ peers' = <<>> /\ pc' = "get_peers"
        /\ nreq' = nreq /\ yielded' = yielded /\ pending' = pending
StarvedSoFar ==
    (\A i \in 1..Len(updates) : ~updates[i].ok) =>
        /\ nreq = 0 /\ yielded = <<>> /\ pending = <<>> /\ peers = <<>>
        /\ pc \in {"init", "get_peers", "done"}
        /\ (pc = "done") => (cause = "expectation" /\ pulled = 1)
Starvation == [](FailedQueryInstallsEmpty /\ StarvedSoFar) /\ [][StarvedGetPeers]_vars
\* The task's own query failed; it was handed the empty list, asked again
\* within the window and is handed the empty list again, with no second query.
StarvationWitness ==
    /\ kind = "tx" /\ pc = "get_peers" /\ nreq = 0 /\ yielded = <<>>
    /\ ncalls >= 2 /\ Len(queries) = 1 /\ queries[1].by = TaskCaller
    /\ Len(updates) = 1 /\ ~updates[1].ok
    /\ ServedByFailure(TaskCaller) /\ ~seen[TaskCaller].stale
    /\ seen[TaskCaller].at = updates[1].at + Timeout

\* C38: get_random_peers is deadlock-free.  A caller waiting for the write
\* lock holds no read lock, the write lock is held only with no reader, and
\* under a fair scheduler every call made, on a fresh or a stale cache and
\* with callers running concurrently, returns.
NoUpgradeWait ==
    /\ \A c \in Callers : cpc[c] = "write_wait" => c \notin lock.readers
    /\ \A c \in Callers : c \in lock.readers <=> cpc[c] \in {"read", "stale"}
    /\ \A c \in Callers : lock.writer = c <=> cpc[c] \in {"recheck", "transport"}
    /\ lock.writer # NoWriter => lock.readers = {}
EveryCallReturns ==
    \A c \in Callers : (cpc[c] = "read_wait") ~> (cpc[c] = "returned")
DeadlockFree == []NoUpgradeWait /\ EveryCallReturns
\* Two callers found the cache stale at the same time; one waits for the
\* write lock while the other holds it with its query in flight.
DeadlockFreeWitness ==
    \E c \in Callers : \E d \in Callers :
        /\ cpc[c] = "write_wait" /\ seen[c].stale
        /\ cpc[d] = "transport" /\ seen[d].stale
        /\ seen[c].q0 = seen[d].q0

\* C39: with every expected count >= 1, a full expectation stream, peers that
\* fail the request or serve the remaining range and end with Fin, a serving
\* peer eventually in the list, and weak fairness of the task, the transport
\* and the consumer, every streamer eventually has yielded all its blocks,
\* the final block last, and its task has ended.
AllYieldedAndEnded ==
    /\ pc = "done"
    /\ YieldedBlocks = (IF range.reverse
                        THEN [i \in 1..Len(RangeBlocks) |-> range.stop - i + 1]
                        ELSE ExpectedBlocks)
    /\ yielded[Len(yielded)].block = stop
Termination == <>AllYieldedAndEnded
\* state_diff_stream ended on Fin after both blocks, the first request having
\* failed.
TerminationWitness ==
    /\ kind = "sd" /\ AllYieldedAndEnded /\ cause = "fin"
    /\ range.stop > range.start /\ nreq = 2 /\ yielded[1].att = 2

\* C40: the single-block calls fail fast.  The peers a call has left behind
\* are those whose request failed to open and, in state_diff_for_block, those
\* whose response stream ended without a Fin; a response that miscounts or
\* carries a definition that does not parse makes the call return at once an
\* error naming the current peer; a call that has returned contacts nobody.
Offends(h) ==
    LET last == h[Len(h)]
        classes == Cardinality({i \in 1..Len(h) : h[i].type = "Class"})
    IN IF b_fn = "sd"
       THEN \/ SumCounted(h) > b_count
            \/ last.type = "Fin" /\ SumCounted(h) < b_count
       ELSE \/ last.type = "Class" /\ (~last.valid \/ classes > b_count)
            \/ last.type \in {"Fin", "End"} /\ classes # b_count
LeftBehind(how) == how = "failed" \/ (b_fn = "sd" /\ how = "ended")
FailFastState ==
    /\ \A i \in 1..Len(b_log) : LeftBehind(b_log[i])
    /\ Len(b_log) = (IF b_pc = "recv" \/ b_result.tag \in {"Err", "OkSome"}
                     THEN b_nreq - 1 ELSE b_nreq)
    /\ b_result.tag = "Err" => (b_pc = "returned" /\ b_result.peer = b_peer)
FailFastStep ==
    /\ (b_pc = "recv" /\ b_nresp' = b_nresp + 1 /\ Offends(b_heard')) =>
           /\ b_pc' = "returned"
           /\ b_result'.tag = "Err" /\ b_result'.peer = b_peer
           /\ b_nreq' = b_nreq /\ b_peers' = b_peers
    /\ (b_nreq' # b_nreq /\ b_nreq >= 1) =>
           (Len(b_log) = b_nreq /\ LeftBehind(b_log[b_nreq]))
    /\ (b_pc = "returned") => (b_nreq' = b_nreq /\ b_nresp' = b_nresp)
FailFast == []FailFastState /\ [][FailFastStep]_vars
\* state_diff_for_block returned the error of the first peer, on its second
\* response, with another peer still in the list.
FailFastWitness ==
    /\ b_fn = "sd" /\ b_pc = "returned" /\ b_result.tag = "Err"
    /\ b_result.peer = b_peer /\ b_nreq = 1 /\ b_peers # <<>>
    /\ Len(b_heard) = 2 /\ SumCounted(b_heard) > b_count

====
